---- MODULE Spec2Model ----
(***************************************************************************)
(* Model of the decision logic of alih-batch:                              *)
(*   - the stat cross-validation of scrape-stat.py (goals + assists =      *)
(*     points): specification SpecStat;                                    *)
(*   - the stream-to-fixture matcher of update-live-url.py: specification  *)
(*     SpecMatch for match_stream_to_game as a function, and Spec for the  *)
(*     updater passes that call it and write alih_schedule.live_url;       *)
(*   - the scripts as processes, from the check of their settings to      *)
(*     their exit, with the post to the Slack webhook: specification       *)
(*     SpecRun;                                                            *)
(*   - a whole run of scrape-stat.py, the merge of the three leaderboards  *)
(*     included: specification SpecScrape;                                 *)
(*   - two processes of update-live-url.py against one table:              *)
(*     specification SpecOverlap;                                          *)
(*   - the runs of scrape-highlights.py: specification SpecHighlights;     *)
(*   - one run of capture_weekly.py down to the blocks it posts:           *)
(*     specification SpecWeekly.                                           *)
(***************************************************************************)
EXTENDS Integers, Sequences, FiniteSets, TLC

VARIABLES
    \* ---- scrape-stat.py ----
    players_dict,   \* (team_id, player_name) key -> merged record
    raw_dict,       \* history: players_dict as it stood right after the merge
    stat_pc,        \* position in scrape_and_upsert_player_stats
    player_stats,   \* the alih_player_stats table
    \* ---- update-live-url.py, one call of match_stream_to_game ----
    match_streams,  \* the streams argument
    match_game,     \* the game argument
    match_result,   \* what the call yielded
    match_pc,       \* "call" before the call, "returned" after it
    keyword_appends,\* the appends made to the module's TEAM_KEYWORDS lists
    \* ---- update-live-url.py, the passes of main() ----
    live_url,       \* alih_schedule.live_url, by fixture id
    clock,          \* the wall clock, in hours
    now,            \* now of get_upcoming_games in the latest pass
    pc,             \* "idle" between passes, "loop" inside the loop of main()
    upcoming_games, \* the list get_upcoming_games returned to this pass
    idx,            \* position of the loop in upcoming_games
    updated_count,  \* updated_count of main()
    last,           \* history: what the latest iteration of the loop did
    retry,          \* history: fixtures the matcher found nothing for, this pass
    carried,        \* history: retry of the pass before, while a pass runs
    pass_ok,        \* history: both queries of the latest pass succeeded
    \* ---- one run of a script ----
    script,         \* the file run
    env,            \* the names of the environment variables that are set
    run_pc,         \* position of the run
    effects,        \* the kinds of external calls made so far
    exit_code,      \* exit status of the process, NoExit while it runs
    post,           \* how the latest requests.post to the webhook ended
    post_log,       \* what the send function printed about it
    propagated,     \* an exception left the send function
    rounds_left,    \* rounds of capture + caption + send still to run
    \* ---- scrape-stat.py, the merge of the three leaderboards ----
    boards,         \* history: data_type -> (key -> value) of the rows merged
    skipped,        \* history: the team codes of the rows skipped as unknown
    parsed,         \* history: the data_types parsed so far, in order
    repairs,        \* history: key -> times the repair ran on its record
    \* ---- update-live-url.py, two processes running main() ----
    runs,           \* process -> position, list and index of its pass
    \* ---- scrape-highlights.py ----
    highlights,     \* alih_schedule: id -> highlight_url, highlight_title
    hl_pc,          \* position in main(): "idle" between runs, "loop"
    videos_left,    \* videos of the run still to be processed
    hl_last,        \* history: the video processed last and how it ended
    \* ---- capture_weekly.py ----
    wk_env,         \* the names of the environment variables that are set
    wk_pc,          \* position in main()
    images,         \* images of main(): the files captured
    caption,        \* the kind of caption generate_weekly_caption gave
    blocks,         \* the blocks posted to the webhook
    wk_post,        \* how requests.post ended
    wk_exit         \* exit status of the process, NoExit while it runs

statVars == <<players_dict, raw_dict, stat_pc, player_stats>>

matchVars == <<match_streams, match_game, match_result, match_pc,
               keyword_appends>>

passVars == <<live_url, clock, now, pc, upcoming_games, idx, updated_count,
              last, retry, carried, pass_ok>>

runVars == <<script, env, run_pc, effects, exit_code, post, post_log,
             propagated, rounds_left>>

scrapeVars == <<boards, skipped, parsed, repairs>>

\* The variables of the specifications that follow the first four.
overlapVars == <<runs>>

highlightVars == <<highlights, hl_pc, videos_left, hl_last>>

weeklyVars == <<wk_env, wk_pc, images, caption, blocks, wk_post, wk_exit>>

restVars == <<scrapeVars, overlapVars, highlightVars, weeklyVars>>

vars == <<statVars, matchVars, passVars, runVars, restVars>>

\* The parts of the state a specification does not exercise stay put.
StatIdle ==
    /\ players_dict = << >>
    /\ raw_dict = << >>
    /\ stat_pc = "off"
    /\ player_stats = << >>

ScrapeIdle ==
    /\ boards = << >>
    /\ skipped = {}
    /\ parsed = << >>
    /\ repairs = << >>

\* The specifications that follow the first four stay put in them.
OverlapIdle == runs = << >>

HighlightIdle ==
    /\ highlights = << >>
    /\ hl_pc = "off"
    /\ videos_left = 0
    /\ hl_last = << >>

WeeklyIdle ==
    /\ wk_env = {}
    /\ wk_pc = "off"
    /\ images = << >>
    /\ caption = "none"
    /\ blocks = << >>
    /\ wk_post = "none"
    /\ wk_exit = 0

RestIdle == ScrapeIdle /\ OverlapIdle /\ HighlightIdle /\ WeeklyIdle

MatchIdle ==
    /\ match_streams = << >>
    /\ match_game = << >>
    /\ match_result = << >>
    /\ match_pc = "off"

KeywordsIdle == keyword_appends = << >>

PassIdle ==
    /\ live_url = << >>
    /\ clock = 0
    /\ now = 0
    /\ pc = "off"
    /\ upcoming_games = << >>
    /\ idx = 0
    /\ updated_count = 0
    /\ last = << >>
    /\ retry = {}
    /\ carried = {}
    /\ pass_ok = FALSE

RunIdle ==
    /\ script = ""
    /\ env = {}
    /\ run_pc = "off"
    /\ effects = {}
    /\ exit_code = 0
    /\ post = "none"
    /\ post_log = "none"
    /\ propagated = FALSE
    /\ rounds_left = 0

(***************************************************************************)
(* update-live-url.py: strings, timestamps and the team tables             *)
(***************************************************************************)

\* Python's None where the other values are strings (live_status).
None == "None"

\* A title that is None: no string, so nothing can be looked up in it.
NoTitle == <<None>>

\* scheduled_time None; the scheduled times are hours >= 0.
NoTime == 0 - 1

\* A URL that is None or empty ("if live_url", "not game.get('live_url')").
NoUrl == << >>

\* str.lower() on one character (the upper-case letters the titles use).
LowerChar(c) ==
    CASE c = "A" -> "a" [] c = "B" -> "b" [] c = "D" -> "d" [] c = "E" -> "e"
      [] c = "G" -> "g" [] c = "H" -> "h" [] c = "I" -> "i" [] c = "K" -> "k"
      [] c = "L" -> "l" [] c = "N" -> "n" [] c = "O" -> "o" [] c = "R" -> "r"
      [] c = "S" -> "s" [] c = "T" -> "t" [] c = "V" -> "v" [] c = "Y" -> "y"
      [] OTHER -> c

\* s.lower()
Lower(s) == [i \in 1..Len(s) |-> LowerChar(s[i])]

\* Python's "p in s" on strings.
Contains(p, s) ==
    \E i \in 0..(Len(s) - Len(p)) : SubSeq(s, i + 1, i + Len(p)) = p

\* Python's s[a:b].
Slice(s, a, b) == SubSeq(s, a + 1, b)

\* s.replace(x, y) for single characters x, y.
Replace(s, x, y) == [i \in 1..Len(s) |-> IF s[i] = x THEN y ELSE s[i]]

DigitValue(c) ==
    CASE c = "0" -> 0 [] c = "1" -> 1 [] c = "2" -> 2 [] c = "3" -> 3
      [] c = "4" -> 4 [] c = "5" -> 5 [] c = "6" -> 6 [] c = "7" -> 7
      [] c = "8" -> 8 [] c = "9" -> 9

DigitChar == <<"1", "2", "3", "4", "5", "6", "7", "8", "9">>

\* int(s) for a string of decimal digits.
RECURSIVE ToInt(_)
ToInt(s) ==
    IF Len(s) = 0 THEN 0
    ELSE 10 * ToInt(SubSeq(s, 1, Len(s) - 1)) + DigitValue(s[Len(s)])

\* str(n) for 0 <= n <= 99, as the f-string of line 269 formats it.
Str(n) ==
    IF n < 10
    THEN << (IF n = 0 THEN "0" ELSE DigitChar[n]) >>
    ELSE << DigitChar[n \div 10],
            (IF n % 10 = 0 THEN "0" ELSE DigitChar[n % 10]) >>

\* Days of the year before the first of each month (2026 is no leap year).
DaysBefore == <<0, 31, 59, 90, 120, 151, 181, 212, 243, 273, 304, 334>>

\* date_parser.parse(match_at) for an ISO timestamp in UTC, as whole hours
\* since 2026-01-01T00:00Z; scheduled_time values are hours on the same scale.
Parse(match_at) ==
    LET year  == ToInt(Slice(match_at, 0, 4))
        month == ToInt(Slice(match_at, 5, 7))
        day   == ToInt(Slice(match_at, 8, 10))
        hour  == ToInt(Slice(match_at, 11, 13))
    IN  ((year - 2026) * 365 + DaysBefore[month] + day - 1) * 24 + hour

Abs(x) == IF x < 0 THEN -x ELSE x

\* Title keywords of each team, by english_name (lines 56-63).  A string is a
\* sequence of characters; a character outside ASCII is written U+<code point>.
TEAM_KEYWORDS ==
    ("HL Anyang" :>
          << <<"U+C548", "U+C591">>,
             <<"a", "n", "y", "a", "n", "g">>,
             <<"h", "l", "a">>,
             <<"U+30A2", "U+30CB", "U+30E3", "U+30F3">>,
             <<"U+30CF", "U+30E9">>,
             <<"h", "l", "U+C548", "U+C591">> >>)
    @@ ("RED EAGLES HOKKAIDO" :>
          << <<"U+B808", "U+B4DC", "U+C774", "U+AE00", "U+C2A4">>,
             <<"r", "e", "d", " ", "e", "a", "g", "l", "e", "s">>,
             <<"h", "o", "k", "k", "a", "i", "d", "o">>,
             <<"r", "e", "h">>,
             <<"U+30EC", "U+30C3", "U+30C9", "U+30A4", "U+30FC", "U+30B0", "U+30EB", "U+30B9">>,
             <<"U+5317", "U+6D77", "U+9053">>,
             <<"U+738B", "U+5B50">> >>)
    @@ ("TOHOKU FREE BLADES" :>
          << <<"U+D504", "U+B9AC", "U+BE14", "U+B808", "U+C774", "U+C988">>,
             <<"f", "r", "e", "e", "b", "l", "a", "d", "e", "s">>,
             <<"t", "o", "h", "o", "k", "u">>,
             <<"t", "f", "b">>,
             <<"U+30D5", "U+30EA", "U+30FC", "U+30D6", "U+30EC", "U+30A4", "U+30BA">>,
             <<"U+6771", "U+5317">> >>)
    @@ ("NIKKO ICEBUCKS" :>
          << <<"U+C544", "U+C774", "U+C2A4", "U+BC85", "U+C2A4">>,
             <<"i", "c", "e", "b", "u", "c", "k", "s">>,
             <<"n", "i", "k", "k", "o">>,
             <<"n", "i", "b">>,
             <<"U+30A2", "U+30A4", "U+30B9", "U+30D0", "U+30C3", "U+30AF", "U+30B9">>,
             <<"U+65E5", "U+5149">> >>)
    @@ ("YOKOHAMA GRITS" :>
          << <<"U+ADF8", "U+B9AC", "U+CE20">>,
             <<"g", "r", "i", "t", "s">>,
             <<"y", "o", "k", "o", "h", "a", "m", "a">>,
             <<"y", "o", "k">>,
             <<"U+30B0", "U+30EA", "U+30C3", "U+30C4">>,
             <<"U+6A2A", "U+6D5C">> >>)
    @@ ("STARS KOBE" :>
          << <<"U+ACE0", "U+BCA0">>,
             <<"k", "o", "b", "e">>,
             <<"s", "t", "a", "r", "s">>,
             <<"s", "t", "k">>,
             <<"U+30B9", "U+30BF", "U+30FC", "U+30BA">>,
             <<"U+795E", "U+6238">> >>)

\* english_name -> channel_url (lines 34-51).
TEAM_YOUTUBE_CHANNELS ==
       ("HL Anyang" :> "https://www.youtube.com/@hlanyang")
    @@ ("RED EAGLES HOKKAIDO" :> "https://www.youtube.com/@OjiEaglesFan")
    @@ ("TOHOKU FREE BLADES" :> "https://www.youtube.com/@freeblades2009")
    @@ ("YOKOHAMA GRITS" :> "https://www.youtube.com/@grits5937")

\* Korean team names of alih_teams.name.
NameAnyang == <<"H", "L", " ", "U+C548", "U+C591">>
NameEagles == <<"U+B808", "U+B4DC", "U+C774", "U+AE00", "U+C2A4">>
NameIcebucks == <<"U+C544", "U+C774", "U+C2A4", "U+BC85", "U+C2A4">>

\* The rows of alih_teams as get_team_info returns them: team_by_id.
TeamById ==
       (1 :> [english_name |-> "HL Anyang", name |-> NameAnyang])
    @@ (2 :> [english_name |-> "RED EAGLES HOKKAIDO", name |-> NameEagles])
    @@ (3 :> [english_name |-> "NIKKO ICEBUCKS", name |-> NameIcebucks])

\* team_id_by_name of get_team_info.
TeamIdByName ==
    [n \in {TeamById[t].english_name : t \in DOMAIN TeamById} |->
        CHOOSE t \in DOMAIN TeamById : TeamById[t].english_name = n]

(***************************************************************************)
(* update-live-url.py: match_stream_to_game                                *)
(***************************************************************************)

\* f"https://www.youtube.com/watch?v={id}" (line 166)
Url(id) == <<"https://www.youtube.com/watch?v=", id>>

\* away_keywords of lines 196-206, read from the keyword table as it stands.
AwayKeywordsIn(table, game, team_by_id) ==
    LET away_team_id == game.away_alih_team_id
        known == away_team_id \in DOMAIN team_by_id
        away_english_name ==
            IF known THEN team_by_id[away_team_id].english_name ELSE ""
        away_korean_name ==
            IF known THEN team_by_id[away_team_id].name ELSE << >>
        listed ==
            IF away_english_name \in DOMAIN table
            THEN table[away_english_name] ELSE << >>
    IN  IF away_korean_name # << >>
        THEN Append(listed, Lower(away_korean_name))
        ELSE listed

\* The module's TEAM_KEYWORDS table in the running process: the table of
\* lines 56-63 with the appends made to its lists since the import, each
\* <<english_name, keyword>>.
TeamKeywordsNow ==
    IF keyword_appends = << >> THEN TEAM_KEYWORDS
    ELSE [n \in DOMAIN TEAM_KEYWORDS |->
            TEAM_KEYWORDS[n] \o
            [i \in 1..Len(SelectSeq(keyword_appends, LAMBDA a : a[1] = n)) |->
                SelectSeq(keyword_appends, LAMBDA a : a[1] = n)[i][2]]]

\* away_keywords of lines 196-206 in the running process.
AwayKeywords(game, team_by_id) ==
    AwayKeywordsIn(TeamKeywordsNow, game, team_by_id)

\* "TEAM_KEYWORDS.get(...)" without the list() around it: the append of
\* line 206 lands in the module's table (seeded fault)
KeywordsAfterMatchAliased(appends, game, team_by_id) ==
    LET away_team_id == game.away_alih_team_id
        known == away_team_id \in DOMAIN team_by_id
        away_english_name ==
            IF known THEN team_by_id[away_team_id].english_name ELSE ""
        away_korean_name ==
            IF known THEN team_by_id[away_team_id].name ELSE << >>
    IN  IF away_english_name \in DOMAIN TEAM_KEYWORDS
           /\ away_korean_name # << >>
        THEN Append(appends, <<away_english_name, Lower(away_korean_name)>>)
        ELSE appends

\* The appends to the module's table after a call: line 202 copies the
\* team's list with list(...), so the append of line 206 changes the copy
\* only.
KeywordsAfterMatch(appends, game, team_by_id) == appends

\* "for keyword in away_keywords: if keyword.lower() in title_lower"
KeywordIn(away_keywords, title) ==
    LET title_lower == Lower(title)
    IN  \E k \in 1..Len(away_keywords) :
            Contains(Lower(away_keywords[k]), title_lower)

\* time_tolerance = timedelta(hours=2), in hours (line 212)
time_tolerance == 2

\* "if time_diff <= time_tolerance" read as "<" (seeded fault)
WithinToleranceStrict(scheduled_time, game_time) ==
    Abs(scheduled_time - game_time) < time_tolerance

\* "abs(scheduled_time - game_time)" without the abs (seeded fault)
WithinToleranceSigned(scheduled_time, game_time) ==
    scheduled_time - game_time <= time_tolerance

\* lines 224-226
WithinTolerance(scheduled_time, game_time) ==
    Abs(scheduled_time - game_time) <= time_tolerance

\* is_live alone, live_status not looked at (seeded fault)
IsLiveOrUpcomingFlagOnly(stream) ==
    stream.is_live

\* lines 243-247
IsLiveOrUpcoming(stream) ==
    stream.is_live \/ stream.live_status \in {"is_upcoming", "is_live"}

\* date_patterns of lines 263-270
DatePatterns(match_at) ==
    LET match_date == Slice(match_at, 0, 10)
        month_day  == Slice(match_date, 5, 10)
    IN  << Replace(match_date, "-", "."),
           Replace(match_date, "-", "/"),
           Replace(month_day, "-", "."),
           Replace(month_day, "-", "/"),
           Str(ToInt(Slice(match_date, 5, 7))) \o <<"U+6708">>
               \o Str(ToInt(Slice(match_date, 8, 10))) \o <<"U+65E5">> >>

\* lines 277-283
DateIn(date_patterns, title) ==
    \E d \in 1..Len(date_patterns) : Contains(date_patterns[d], title)

\* What a call yields: the returned value and the return statement taken
\* ("time+team" line 232, "time" line 237, "live+team" line 260,
\* "date+team" line 293, "none" line 295), or the exception raised by
\* title.lower() on a stream whose title is None.
\* Returned building the url from a fixed video id rather than taking the
\* url of the entry.
ReturnedFixedId(stream, how) == [url |-> Url(0), how |-> how]

Returned(stream, how) == [url |-> stream.url, how |-> how]
NoMatch == [url |-> NoUrl, how |-> "none"]
Raised == [url |-> NoUrl, how |-> "raise"]

\* The 3rd loop giving up at the first dated title without a keyword
\* ("break" for "continue with the next stream") (seeded fault)
RECURSIVE DateLoopBreak(_, _, _, _)
DateLoopBreak(streams, i, date_patterns, away_keywords) ==
    IF i > Len(streams) THEN NoMatch
    ELSE LET stream == streams[i] IN
         IF stream.title = NoTitle THEN Raised
         ELSE IF ~DateIn(date_patterns, stream.title)
         THEN DateLoopBreak(streams, i + 1, date_patterns, away_keywords)
         ELSE IF KeywordIn(away_keywords, stream.title)
         THEN Returned(stream, "date+team")
         ELSE NoMatch

\* 3rd loop, lines 272-293, from index i on.
RECURSIVE DateLoop(_, _, _, _)
DateLoop(streams, i, date_patterns, away_keywords) ==
    IF i > Len(streams) THEN NoMatch
    ELSE LET stream == streams[i] IN
         IF stream.title = NoTitle THEN Raised
         ELSE IF ~DateIn(date_patterns, stream.title)
         THEN DateLoop(streams, i + 1, date_patterns, away_keywords)
         ELSE IF KeywordIn(away_keywords, stream.title)
         THEN Returned(stream, "date+team")
         ELSE DateLoop(streams, i + 1, date_patterns, away_keywords)

\* 2nd loop, lines 240-260, from index i on.
RECURSIVE LiveLoop(_, _, _)
LiveLoop(streams, i, away_keywords) ==
    IF i > Len(streams) THEN NoMatch
    ELSE LET stream == streams[i] IN
         IF stream.title = NoTitle THEN Raised
         ELSE IF ~IsLiveOrUpcoming(stream)
         THEN LiveLoop(streams, i + 1, away_keywords)
         ELSE IF stream.scheduled_time # NoTime
         THEN LiveLoop(streams, i + 1, away_keywords)
         ELSE IF KeywordIn(away_keywords, stream.title)
         THEN Returned(stream, "live+team")
         ELSE LiveLoop(streams, i + 1, away_keywords)

\* 1st loop, lines 215-237, from index i on.
RECURSIVE TimeLoop(_, _, _, _)
TimeLoop(streams, i, game_time, away_keywords) ==
    IF i > Len(streams) THEN NoMatch
    ELSE LET stream == streams[i] IN
         IF stream.title = NoTitle THEN Raised
         ELSE IF stream.scheduled_time = NoTime
         THEN TimeLoop(streams, i + 1, game_time, away_keywords)
         ELSE IF WithinTolerance(stream.scheduled_time, game_time)
         THEN IF KeywordIn(away_keywords, stream.title)
              THEN Returned(stream, "time+team")
              ELSE Returned(stream, "time")
         ELSE TimeLoop(streams, i + 1, game_time, away_keywords)

\* The 3rd loop run before the 2nd (seeded fault)
MatchTraceDateFirst(streams, game, team_by_id) ==
    LET away_keywords == AwayKeywords(game, team_by_id)
        game_time == Parse(game.match_at)
        first == TimeLoop(streams, 1, game_time, away_keywords)
    IN  IF first # NoMatch THEN first
        ELSE LET second == DateLoop(streams, 1, DatePatterns(game.match_at),
                                    away_keywords) IN
             IF second # NoMatch THEN second
             ELSE LiveLoop(streams, 1, away_keywords)

\* match_stream_to_game with the return statement it took.
MatchTrace(streams, game, team_by_id) ==
    LET away_keywords == AwayKeywords(game, team_by_id)
        game_time == Parse(game.match_at)
        first == TimeLoop(streams, 1, game_time, away_keywords)
    IN  IF first # NoMatch THEN first
        ELSE LET second == LiveLoop(streams, 1, away_keywords) IN
             IF second # NoMatch THEN second
             ELSE DateLoop(streams, 1, DatePatterns(game.match_at),
                           away_keywords)

\* match_stream_to_game(streams, game, team_by_id) -> str | None
match_stream_to_game(streams, game, team_by_id) ==
    MatchTrace(streams, game, team_by_id).url

(***************************************************************************)
(* The matcher as a function (SpecMatch): Init draws a fixture and a list  *)
(* of candidate streams, Match applies match_stream_to_game.               *)
(***************************************************************************)

\* Sample titles and match_at values.
TitleOld == <<"O", "l", "d", " ", "s", "t", "r", "e", "a", "m">>
TitleAnyang == <<"v", "s", " ", "A", "n", "y", "a", "n", "g">>
TitleDateHla == <<"0", "1", "/", "1", "3", " ", "H", "L", "A">>
TitleDateOji == <<"1", "U+6708", "1", "3", "U+65E5", " ", "U+738B", "U+5B50">>
MatchAt1310 == <<"2", "0", "2", "6", "-", "0", "1", "-", "1", "3", "T", "1", "0", ":", "0", "0", ":", "0", "0", "+", "0", "0", ":", "0", "0">>
MatchAt1315 == <<"2", "0", "2", "6", "-", "0", "1", "-", "1", "3", "T", "1", "5", ":", "0", "0", ":", "0", "0", "+", "0", "0", ":", "0", "0">>

\* Longest candidate list drawn.
MaxStreams == 2

\* Titles of the candidates that have one.
Titles == {TitleOld, TitleAnyang, TitleDateHla, TitleDateOji}

\* scheduled_time of a candidate: none, or 12:00 / 13:00 on 2026-01-13
\* (2 h and 3 h after the 10:00 fixture, 3 h and 2 h before the 15:00 one).
SchedTimes ==
    {NoTime, Parse(MatchAt1310) + time_tolerance,
             Parse(MatchAt1315) - time_tolerance}

\* (title, (is_live, live_status), scheduled_time) of the candidates drawn:
\* ended and upcoming streams with and without a time, streams on air
\* without a time, and one entry whose title is null in yt-dlp's JSON.
Shapes ==
    (Titles \X { [is_live |-> FALSE, live_status |-> "was_live"],
                 [is_live |-> FALSE, live_status |-> "is_upcoming"] }
            \X SchedTimes)
    \cup (Titles \X { [is_live |-> TRUE, live_status |-> None] } \X {NoTime})
    \cup { <<NoTitle, [is_live |-> FALSE, live_status |-> "was_live"], NoTime>> }

\* One entry of find_live_streams (lines 163-170) with video id v.
Stream(v, title, live, scheduled_time) ==
    [id |-> v, title |-> title, url |-> Url(v),
     is_live |-> live.is_live, live_status |-> live.live_status,
     scheduled_time |-> scheduled_time]

\* Lists of up to n entries drawn from the shapes S; the i-th has video id i.
ListsOf(S, n) ==
    UNION { { [i \in 1..len |-> Stream(i, f[i][1], f[i][2], f[i][3])] :
                f \in [1..len -> S] } : len \in 0..n }

\* A row of alih_schedule as the select of lines 104-105 returns it.
Game(id, match_at, home, away, url) ==
    [id |-> id, game_no |-> id, match_at |-> match_at,
     home_alih_team_id |-> home, away_alih_team_id |-> away,
     live_url |-> url]

\* The fixtures: Red Eagles v Anyang at 10:00, Anyang v Red Eagles at 15:00,
\* Icebucks (no channel) v Anyang at 10:00, and a second Red Eagles v Anyang
\* at 15:00, all on 2026-01-13.
Fixtures ==
       (1 :> Game(1, MatchAt1310, 2, 1, NoUrl))
    @@ (2 :> Game(2, MatchAt1315, 1, 2, NoUrl))
    @@ (3 :> Game(3, MatchAt1310, 3, 1, NoUrl))
    @@ (4 :> Game(4, MatchAt1315, 2, 1, NoUrl))

\* The rows of alih_schedule in the passes of one process, and in the
\* passes of two processes on the two Red Eagles v Anyang fixtures.
PassFixtureIds == {1, 2, 3}
SeriesFixtureIds == {1, 4}

MatchGames == {Fixtures[1], Fixtures[2]}

MatchInit ==
    /\ match_streams = << >>
    /\ match_game \in MatchGames
    /\ match_result = [url |-> NoUrl, how |-> "pending"]
    /\ match_pc = "call"
    /\ keyword_appends = << >>
    /\ StatIdle
    /\ PassIdle
    /\ RunIdle
    /\ RestIdle

\* The caller's list grows by one entry of the channel (streams.append).
ListStream ==
    /\ match_pc = "call"
    /\ Len(match_streams) < MaxStreams
    /\ \E sh \in Shapes :
          match_streams' =
              Append(match_streams,
                     Stream(Len(match_streams) + 1, sh[1], sh[2], sh[3]))
    /\ UNCHANGED <<restVars, match_game, match_result, match_pc, keyword_appends,
                   statVars, passVars, runVars>>

\* live_url = match_stream_to_game(streams, game, team_by_id)
Match ==
    /\ match_pc = "call"
    /\ match_result' = MatchTrace(match_streams, match_game, TeamById)
    /\ match_pc' = "returned"
    /\ keyword_appends' =
          KeywordsAfterMatch(keyword_appends, match_game, TeamById)
    /\ UNCHANGED <<restVars, match_streams, match_game, statVars, passVars, runVars>>

MatchNext == ListStream \/ Match

SpecMatch == MatchInit /\ [][MatchNext]_vars

(***************************************************************************)
(* The updater passes (Spec): main() run again and again, one pass at a    *)
(* time, against the alih_schedule table.                                  *)
(***************************************************************************)

\* supported_team_ids of lines 327-331
SupportedTeamIds ==
    { TeamIdByName[n] :
        n \in DOMAIN TEAM_YOUTUBE_CHANNELS \cap DOMAIN TeamIdByName }

\* timedelta(hours=6) of line 101, in hours
six_hours == 6

\* The ascending sequence of the elements of a set of integers.
Sorted(S) ==
    CHOOSE seq \in [1..Cardinality(S) -> S] :
        \A i, j \in 1..Cardinality(S) : i < j => seq[i] < seq[j]

\* The query without ".gte('match_at', now.isoformat())" (seeded fault)
QueryRowsNoLower(t, urls, supported_team_ids) ==
    { id \in DOMAIN urls :
        /\ Parse(Fixtures[id].match_at) <= t + six_hours
        /\ Fixtures[id].home_alih_team_id \in supported_team_ids }

\* The query with "gt" for "gte": a fixture starting right now is left out
\* (seeded fault)
QueryRowsStrict(t, urls, supported_team_ids) ==
    { id \in DOMAIN urls :
        /\ Parse(Fixtures[id].match_at) > t
        /\ Parse(Fixtures[id].match_at) <= t + six_hours
        /\ Fixtures[id].home_alih_team_id \in supported_team_ids }

\* The rows the query of lines 104-109 returns at time t.
QueryRows(t, urls, supported_team_ids) ==
    { id \in DOMAIN urls :
        /\ Parse(Fixtures[id].match_at) >= t
        /\ Parse(Fixtures[id].match_at) <= t + six_hours
        /\ Fixtures[id].home_alih_team_id \in supported_team_ids }

\* get_upcoming_games without the live_url filter of line 115 (seeded fault)
GetUpcomingGamesUnfiltered(t, urls, supported_team_ids) ==
    LET ids == Sorted(QueryRows(t, urls, supported_team_ids))
    IN  [i \in 1..Len(ids) |-> [Fixtures[ids[i]] EXCEPT !.live_url = urls[ids[i]]]]

\* get_upcoming_games (lines 95-115): the rows in the window whose live_url
\* is empty, as a list.
GetUpcomingGames(t, urls, supported_team_ids) ==
    LET ids == Sorted({ id \in QueryRows(t, urls, supported_team_ids) :
                          urls[id] = NoUrl })
    IN  [i \in 1..Len(ids) |-> [Fixtures[ids[i]] EXCEPT !.live_url = urls[ids[i]]]]

\* Shapes of the candidates a channel lists during a pass.
PassShapes ==
    { <<TitleOld, [is_live |-> TRUE, live_status |-> None],
            Parse(MatchAt1310) + time_tolerance>>,
      <<TitleAnyang, [is_live |-> FALSE, live_status |-> "is_upcoming"], NoTime>>,
      <<TitleDateOji, [is_live |-> FALSE, live_status |-> "was_live"], NoTime>>,
      <<NoTitle, [is_live |-> FALSE, live_status |-> "was_live"], NoTime>> }

\* The entries yt-dlp printed, when find_live_streams ran to its end.
PassStreamLists == ListsOf(PassShapes, MaxStreams)

\* How a call of find_live_streams ends: "ok" (line 176), a non-zero exit
\* status (lines 147-149), subprocess.TimeoutExpired (lines 177-179) or any
\* other exception (lines 180-181).
ListingFailures == {"nonzero", "timeout", "exception"}

\* A call of find_live_streams: how it ends, and the entries read from
\* yt-dlp's output by then.
Listings ==
    { [outcome |-> "ok", entries |-> l] : l \in PassStreamLists }
    \cup { [outcome |-> o, entries |-> l] :
             o \in ListingFailures, l \in ListsOf(PassShapes, 1) }

\* find_live_streams handing back, on an exception, the entries appended
\* so far (seeded fault)
FindLiveStreamsPartial(outcome, entries) ==
    IF outcome \in {"ok", "exception"} THEN entries ELSE << >>

\* find_live_streams (lines 123-181): the entries, or [] on any failure.
FindLiveStreams(outcome, entries) ==
    IF outcome = "ok" THEN entries ELSE << >>

\* The clock starts seven hours before the first fixture and the model
\* stops it one hour after the last.
FirstNow == Parse(MatchAt1310) - six_hours - 1
LastNow == Parse(MatchAt1315) + 1

\* No iteration of the loop yet in this pass.
NoLast ==
    [id |-> 0, listing |-> "none", called |-> FALSE,
     result |-> [url |-> NoUrl, how |-> "pending"], written |-> "no"]

PassInit ==
    /\ live_url = [id \in PassFixtureIds |-> NoUrl]
    /\ clock = FirstNow
    /\ now = FirstNow
    /\ pc = "idle"
    /\ upcoming_games = << >>
    /\ idx = 0
    /\ updated_count = 0
    /\ last = NoLast
    /\ retry = {}
    /\ carried = {}
    /\ pass_ok = TRUE
    /\ keyword_appends = << >>

\* A new process: main() up to the loop (lines 315-344), load the teams,
\* query the games.
StartPass ==
    /\ pc = "idle"
    /\ now' = clock
    /\ \E teams_ok, query_ok \in BOOLEAN :
         LET games == IF teams_ok /\ query_ok
                      THEN GetUpcomingGames(clock, live_url, SupportedTeamIds)
                      ELSE << >>
         IN  /\ upcoming_games' = games
             /\ pc' = IF games = << >> THEN "idle" ELSE "loop"
             /\ idx' = IF games = << >> THEN 0 ELSE 1
             /\ pass_ok' = (teams_ok /\ query_ok)
    /\ updated_count' = 0
    /\ last' = NoLast
    /\ carried' = retry
    /\ retry' = {}
    /\ keyword_appends' = << >>
    /\ UNCHANGED <<restVars, live_url, clock, statVars,
                   match_streams, match_game, match_result, match_pc,
                   runVars>>

\* update_live_url with the ".eq('id', game_id)" of line 304 left out: the
\* update reaches every row (seeded fault)
UpdateLiveUrlNoEq(urls, game_id, url, ok) ==
    IF ok THEN [id \in DOMAIN urls |-> url] ELSE urls

\* update_live_url (lines 299-311): the write, or an exception swallowed.
UpdateLiveUrl(urls, game_id, url, ok) ==
    IF ok THEN [urls EXCEPT ![game_id] = url] ELSE urls

\* One iteration of the loop of main() (lines 346-393).
ProcessGame ==
    /\ pc = "loop"
    /\ LET game == upcoming_games[idx]
           home_team_id == game.home_alih_team_id
           home_english_name ==
               IF home_team_id \in DOMAIN TeamById
               THEN TeamById[home_team_id].english_name ELSE ""
           has_channel == home_english_name \in DOMAIN TEAM_YOUTUBE_CHANNELS
           final == idx = Len(upcoming_games)
       IN  \E listing \in Listings :
             LET streams == IF has_channel
                            THEN FindLiveStreams(listing.outcome,
                                                 listing.entries)
                            ELSE << >>
                 called == has_channel /\ streams # << >>
                 matched == IF called
                            THEN MatchTrace(streams, game, TeamById)
                            ELSE [url |-> NoUrl, how |-> "pending"]
                 found == matched.url # NoUrl
                 \* an exception out of match_stream_to_game ends the process
                 stop == final \/ matched.how = "raise"
             IN  \E write_ok \in IF found THEN BOOLEAN ELSE {FALSE} :
                 /\ live_url' =
                        IF found
                        THEN UpdateLiveUrl(live_url, game.id, matched.url, write_ok)
                        ELSE live_url
                 /\ updated_count' = IF found /\ write_ok
                                      THEN updated_count + 1
                                      ELSE updated_count
                 /\ keyword_appends' =
                        IF called
                        THEN KeywordsAfterMatch(keyword_appends, game, TeamById)
                        ELSE keyword_appends
                 /\ last' = [id |-> game.id,
                             listing |-> IF has_channel THEN listing.outcome
                                         ELSE "none",
                             called |-> called,
                             result |-> matched,
                             written |-> IF ~found THEN "no"
                                         ELSE IF write_ok THEN "yes"
                                         ELSE "failed"]
                 /\ retry' = IF matched.how = "none"
                             THEN retry \cup {game.id} ELSE retry
                 /\ carried' = IF stop THEN {} ELSE carried
                 /\ pc' = IF stop THEN "idle" ELSE "loop"
                 /\ idx' = IF stop THEN 0 ELSE idx + 1
                 /\ upcoming_games' = IF stop THEN << >> ELSE upcoming_games
    /\ UNCHANGED <<restVars, clock, now, pass_ok, statVars,
                   match_streams, match_game, match_result, match_pc,
                   runVars>>

\* An hour goes by between two passes (a pass lasts minutes).
Tick ==
    /\ pc = "idle"
    /\ clock < LastNow
    /\ clock' = clock + 1
    /\ UNCHANGED <<restVars, live_url, now, pc, upcoming_games, idx, updated_count,
                   last, retry, carried, pass_ok, statVars, matchVars,
                   runVars>>

Init == PassInit /\ StatIdle /\ MatchIdle /\ RunIdle /\ RestIdle

Next == StartPass \/ ProcessGame \/ Tick

Spec == Init /\ [][Next]_vars

(***************************************************************************)
(* Two processes running main() against one alih_schedule (SpecOverlap):   *)
(* the table holds the two Red Eagles v Anyang fixtures of 2026-01-13;     *)
(* each process makes one pass, and the passes may follow one another or   *)
(* overlap.                                                                *)
(***************************************************************************)

Procs == {1, 2}

\* The videos of the Red Eagles channel: an upcoming stream titled
\* "vs Anyang" without a time, a stream on air scheduled for 12:00, and an
\* ended stream titled "01/13 HLA".
ChannelVideos ==
    << Stream(1, TitleAnyang,
              [is_live |-> FALSE, live_status |-> "is_upcoming"], NoTime),
       Stream(2, TitleOld, [is_live |-> TRUE, live_status |-> None],
              Parse(MatchAt1310) + time_tolerance),
       Stream(3, TitleDateHla,
              [is_live |-> FALSE, live_status |-> "was_live"], NoTime) >>

\* What find_live_streams hands back for the channel: any of its videos,
\* in the order of the channel (none when the listing failed).
ChannelListings ==
    { LET ids == Sorted(S)
      IN  [i \in 1..Len(ids) |-> ChannelVideos[ids[i]]] :
        S \in SUBSET (1..Len(ChannelVideos)) }

\* A process that has not started main() yet.
NoRun == [pc |-> "idle", games |-> << >>, idx |-> 0]

OverlapInit ==
    /\ live_url = [id \in SeriesFixtureIds |-> NoUrl]
    /\ clock = Parse(MatchAt1310) - 1
    /\ runs = [p \in Procs |-> NoRun]
    /\ now = 0
    /\ pc = "off"
    /\ upcoming_games = << >>
    /\ idx = 0
    /\ updated_count = 0
    /\ last = << >>
    /\ retry = {}
    /\ carried = {}
    /\ pass_ok = FALSE
    /\ StatIdle
    /\ ScrapeIdle
    /\ HighlightIdle
    /\ MatchIdle
    /\ KeywordsIdle
    /\ RunIdle
    /\ WeeklyIdle

\* Process p runs main() up to the loop (lines 315-344).
StartPassOf(p) ==
    /\ runs[p].pc = "idle"
    /\ \E teams_ok, query_ok \in BOOLEAN :
         LET games == IF teams_ok /\ query_ok
                      THEN GetUpcomingGames(clock, live_url, SupportedTeamIds)
                      ELSE << >>
         IN  runs' = [runs EXCEPT ![p] =
                        IF games = << >>
                        THEN [pc |-> "done", games |-> << >>, idx |-> 0]
                        ELSE [pc |-> "loop", games |-> games, idx |-> 1]]
    /\ UNCHANGED <<weeklyVars, live_url, clock, now, pc, upcoming_games, idx,
                   updated_count, last, retry, carried, pass_ok, statVars,
                   scrapeVars, highlightVars, matchVars, runVars>>

\* One iteration of the loop of main() (lines 346-393) in process p.
ProcessGameOf(p) ==
    /\ runs[p].pc = "loop"
    /\ LET game == runs[p].games[runs[p].idx]
           final == runs[p].idx = Len(runs[p].games)
       IN  \E streams \in ChannelListings :
             LET matched == IF streams # << >>
                            THEN MatchTrace(streams, game, TeamById)
                            ELSE [url |-> NoUrl, how |-> "pending"]
                 found == matched.url # NoUrl
                 stop == final \/ matched.how = "raise"
             IN  \E write_ok \in IF found THEN BOOLEAN ELSE {FALSE} :
                 /\ live_url' =
                        IF found
                        THEN UpdateLiveUrl(live_url, game.id, matched.url, write_ok)
                        ELSE live_url
                 /\ runs' = [runs EXCEPT ![p] =
                        IF stop
                        THEN [pc |-> "done", games |-> << >>, idx |-> 0]
                        ELSE [runs[p] EXCEPT !.idx = runs[p].idx + 1]]
    /\ UNCHANGED <<weeklyVars, clock, now, pc, upcoming_games, idx, updated_count, last,
                   retry, carried, pass_ok, statVars, scrapeVars, highlightVars,
                   matchVars, runVars>>

\* An hour goes by while no process is in its loop (a pass lasts minutes).
OverlapTick ==
    /\ \A p \in Procs : runs[p].pc # "loop"
    /\ clock < Parse(MatchAt1315)
    /\ clock' = clock + 1
    /\ UNCHANGED <<weeklyVars, live_url, runs, now, pc, upcoming_games, idx,
                   updated_count, last, retry, carried, pass_ok, statVars,
                   scrapeVars, highlightVars, matchVars, runVars>>

OverlapNext ==
    \/ \E p \in Procs : StartPassOf(p)
    \/ \E p \in Procs : ProcessGameOf(p)
    \/ OverlapTick

SpecOverlap == OverlapInit /\ [][OverlapNext]_vars

(***************************************************************************)
(* scrape-highlights.py (SpecHighlights): runs of main(), each processing  *)
(* the videos of the channel one after the other against alih_schedule.    *)
(***************************************************************************)

\* Most videos one run processes.
MaxVideos == 2

\* match_at of a fixture on the day after, and the two dates as titles
\* carry them once parse_video_title has put them as YYYY-MM-DD.
MatchAt1410 == [MatchAt1310 EXCEPT ![10] = "4"]
Date13 == Slice(MatchAt1310, 0, 10)
Date14 == Slice(MatchAt1410, 0, 10)

\* The rows of alih_schedule: Red Eagles v Anyang on the 13th, Anyang v
\* Red Eagles on the 14th, Icebucks v Anyang on the 13th.
HighlightGames ==
       (1 :> Game(1, MatchAt1310, 2, 1, NoUrl))
    @@ (2 :> Game(2, MatchAt1410, 1, 2, NoUrl))
    @@ (3 :> Game(3, MatchAt1310, 3, 1, NoUrl))

\* A row without a highlight.
NoHighlight == [highlight_url |-> NoUrl, highlight_title |-> << >>]

\* The team names parse_video_title can hand over: the english_name of a
\* team of alih_teams, or a name normalize_team_name could not map.
ParsedTeams ==
    {"HL Anyang", "RED EAGLES HOKKAIDO", "NIKKO ICEBUCKS", "Stars Kobe"}

\* What parse_video_title returns: None, or date and the two teams.
ParsedInfos ==
    { [ok |-> FALSE, date |-> << >>, team_a |-> "", team_b |-> ""] }
    \cup [ok : {TRUE}, date : {Date13, Date14},
          team_a : ParsedTeams, team_b : ParsedTeams]

\* The entries of get_recent_videos with what their title parses to.
Videos == [id : 1..2, parsed : ParsedInfos]

\* How the requests of match_and_update_schedule end.
DbOutcomes == {"ok", "select_fails", "update_fails"}

\* generate_highlight_title (lines 130-142)
generate_highlight_title(parsed_info, home_team_id, away_team_id) ==
    LET date_str == Replace(parsed_info.date, "-", ".")
        home_korean == IF home_team_id \in DOMAIN TeamById
                       THEN TeamById[home_team_id].name
                       ELSE << parsed_info.team_a >>
        away_korean == IF away_team_id \in DOMAIN TeamById
                       THEN TeamById[away_team_id].name
                       ELSE << parsed_info.team_b >>
    IN  << home_korean, away_korean, date_str >>

\* The rows the select of lines 167-171 returns: the games whose match_at
\* lies between 00:00:00 and 23:59:59 of match_date.
GamesOn(match_date) ==
    Sorted({ id \in DOMAIN HighlightGames :
               Slice(HighlightGames[id].match_at, 0, 10) = match_date })

\* The loop of lines 179-187: the first game of the two teams, in either
\* order; 0 when there is none.
RECURSIVE MatchedGame(_, _, _, _)
MatchedGame(ids, i, team_a_id, team_b_id) ==
    IF i > Len(ids) THEN 0
    ELSE LET home_id == HighlightGames[ids[i]].home_alih_team_id
             away_id == HighlightGames[ids[i]].away_alih_team_id
         IN  IF \/ home_id = team_a_id /\ away_id = team_b_id
                \/ home_id = team_b_id /\ away_id = team_a_id
             THEN ids[i]
             ELSE MatchedGame(ids, i + 1, team_a_id, team_b_id)

\* The test of line 194 left out: a game that has a highlight gets the
\* next one written over it.
HasHighlightNever(row) == FALSE

\* matched_game.get('highlight_url') of line 194
HasHighlight(row) == row.highlight_url # NoUrl

\* match_and_update_schedule (lines 145-221): the table afterwards, how the
\* call ended and the game it settled on.
match_and_update_schedule(table, video, db) ==
    LET parsed_info == video.parsed
        known(n) == n \in DOMAIN TeamIdByName
        team_a_id == IF known(parsed_info.team_a)
                     THEN TeamIdByName[parsed_info.team_a] ELSE 0
        team_b_id == IF known(parsed_info.team_b)
                     THEN TeamIdByName[parsed_info.team_b] ELSE 0
        ids == GamesOn(parsed_info.date)
        game == MatchedGame(ids, 1, team_a_id, team_b_id)
        end(how, g) == [table |-> table, how |-> how, game |-> g]
    IN  IF team_a_id = 0 \/ team_b_id = 0 THEN end("team_not_found", 0)
        ELSE IF db = "select_fails" THEN end("db_error", 0)
        ELSE IF ids = << >> THEN end("no_games", 0)
        ELSE IF game = 0 THEN end("no_match", 0)
        ELSE IF HasHighlight(table[game]) THEN end("already", game)
        ELSE IF db = "update_fails" THEN end("db_error", game)
        ELSE [table |->
                [table EXCEPT ![game] =
                    [highlight_url |-> Url(video.id),
                     highlight_title |->
                        generate_highlight_title(
                            parsed_info,
                            HighlightGames[game].home_alih_team_id,
                            HighlightGames[game].away_alih_team_id)]],
              how |-> "updated", game |-> game]

\* No video processed yet in this run.
NoVideo ==
    [video |-> [id |-> 0, parsed |-> [ok |-> FALSE, date |-> << >>,
                                      team_a |-> "", team_b |-> ""]],
     how |-> "none", game |-> 0]

HighlightInit ==
    /\ highlights = [id \in DOMAIN HighlightGames |-> NoHighlight]
    /\ hl_pc = "idle"
    /\ videos_left = 0
    /\ hl_last = NoVideo
    /\ StatIdle
    /\ ScrapeIdle
    /\ OverlapIdle
    /\ MatchIdle
    /\ KeywordsIdle
    /\ PassIdle
    /\ RunIdle
    /\ WeeklyIdle

\* main() up to its loop (lines 224-247): without team maps or without
\* videos the run ends at once.
HighlightStart ==
    /\ hl_pc = "idle"
    /\ \E maps_ok \in BOOLEAN, n \in 0..MaxVideos :
          /\ videos_left' = IF maps_ok THEN n ELSE 0
          /\ hl_pc' = IF maps_ok /\ n > 0 THEN "loop" ELSE "idle"
    /\ hl_last' = NoVideo
    /\ UNCHANGED <<weeklyVars, highlights, statVars, scrapeVars, overlapVars, matchVars,
                   passVars, runVars>>

\* One iteration of the loop of main() (lines 249-261).
ProcessVideo ==
    /\ hl_pc = "loop"
    /\ \E video \in Videos :
       \* no request is made for a video without two teams of alih_teams
       \E db \in IF {video.parsed.team_a, video.parsed.team_b}
                      \subseteq DOMAIN TeamIdByName
                  THEN DbOutcomes ELSE {"ok"} :
          LET done == IF video.parsed.ok
                      THEN match_and_update_schedule(highlights, video, db)
                      ELSE [table |-> highlights, how |-> "not_parsed",
                            game |-> 0]
          IN  /\ highlights' = done.table
              /\ hl_last' = [video |-> video, how |-> done.how,
                             game |-> done.game]
    /\ videos_left' = videos_left - 1
    /\ hl_pc' = IF videos_left = 1 THEN "idle" ELSE "loop"
    /\ UNCHANGED <<weeklyVars, statVars, scrapeVars, overlapVars, matchVars, passVars,
                   runVars>>

HighlightNext == HighlightStart \/ ProcessVideo

SpecHighlights == HighlightInit /\ [][HighlightNext]_vars

(***************************************************************************)
(* scrape-stat.py: cross-validation of the merged records                  *)
(***************************************************************************)

\* Largest counter value of the leaderboards drawn by Init.
MaxStat == 3

\* The (team_id, name) keys of the merged records of one run.
PlayerKeys == { <<1, "KIM">>, <<2, "SATO">> }

\* The worked examples of the repair policy, beyond the 0..MaxStat cube.
ExampleRecords ==
    { [goals |-> 12, assists |-> 0, points |-> 17],
      [goals |-> 0,  assists |-> 6, points |-> 0],
      [goals |-> 3,  assists |-> 4, points |-> 7] }

StatRecords ==
    [goals : 0..MaxStat, assists : 0..MaxStat, points : 0..MaxStat]
        \cup ExampleRecords

Sum(data) == data.goals + data.assists

\* Case1 with the first branch assigning the wrong key (goals for assists).
Case1WrongKey(data) ==
    IF data.points > Sum(data)
    THEN IF data.goals > 0 /\ data.assists = 0
         THEN [data EXCEPT !.goals = data.points - data.goals]
         ELSE IF data.assists > 0 /\ data.goals = 0
              THEN [data EXCEPT !.goals = data.points - data.assists]
              ELSE data
    ELSE data

\* Case1 with the first guard weakened to goals >= 0 (fires on 0/0 too).
Case1ZeroGoals(data) ==
    IF data.points > Sum(data)
    THEN IF data.goals >= 0 /\ data.assists = 0
         THEN [data EXCEPT !.assists = data.points - data.goals]
         ELSE IF data.assists > 0 /\ data.goals = 0
              THEN [data EXCEPT !.goals = data.points - data.assists]
              ELSE data
    ELSE data

\* Case1 without the elif branch (a missing goals counter is never filled).
Case1NoElif(data) ==
    IF data.points > Sum(data)
    THEN IF data.goals > 0 /\ data.assists = 0
         THEN [data EXCEPT !.assists = data.points - data.goals]
         ELSE data
    ELSE data

\* CASE 1 of the loop body (lines 147-157): points exceeds goals + assists.
Case1(data) ==
    IF data.points > Sum(data)
    THEN IF data.goals > 0 /\ data.assists = 0
         THEN [data EXCEPT !.assists = data.points - data.goals]
         ELSE IF data.assists > 0 /\ data.goals = 0
              THEN [data EXCEPT !.goals = data.points - data.assists]
              ELSE data
    ELSE data

\* Case2 without its guard: points is always set to goals + assists.
Case2Unguarded(data) == [data EXCEPT !.points = Sum(data)]

\* Case2 writing the recomputed points into goals.
Case2IntoGoals(data) ==
    IF Sum(data) > data.points
    THEN [data EXCEPT !.goals = Sum(data)]
    ELSE data

\* Case2 forgetting the assists in the recomputed sum.
Case2GoalsOnly(data) ==
    IF Sum(data) > data.points
    THEN [data EXCEPT !.points = data.goals]
    ELSE data

\* CASE 2 of the loop body (lines 161-163): goals + assists exceeds points.
Case2(data) ==
    IF Sum(data) > data.points
    THEN [data EXCEPT !.points = Sum(data)]
    ELSE data

\* One iteration of the loop over players_dict.items().
Reconcile(data) == Case2(Case1(data))

\* The loop "for key, data in players_dict.items()" as one step.
Validate ==
    /\ stat_pc = "merged"
    /\ players_dict' = [k \in DOMAIN players_dict |-> Reconcile(players_dict[k])]
    /\ repairs' = [k \in DOMAIN players_dict |->
                      IF k \in DOMAIN repairs THEN repairs[k] + 1 ELSE 1]
    /\ stat_pc' = "validated"
    /\ UNCHANGED <<weeklyVars, boards, skipped, parsed, raw_dict, player_stats,
                   overlapVars, highlightVars, matchVars, passVars, runVars>>

\* The upsert of every record; a Supabase error is printed and swallowed.
Upsert ==
    /\ stat_pc = "validated"
    /\ \E ok \in BOOLEAN :
          player_stats' = IF ok THEN players_dict ELSE player_stats
    /\ stat_pc' = "done"
    /\ UNCHANGED <<restVars, players_dict, raw_dict, matchVars, passVars, runVars>>

StatInit ==
    /\ players_dict \in [PlayerKeys -> StatRecords]
    /\ raw_dict = players_dict
    /\ stat_pc = "merged"
    /\ player_stats = << >>
    /\ MatchIdle
    /\ KeywordsIdle
    /\ PassIdle
    /\ RunIdle
    /\ RestIdle

StatNext == Validate \/ Upsert

SpecStat == StatInit /\ [][StatNext]_vars

(***************************************************************************)
(* scrape-stat.py: a whole run of scrape_and_upsert_player_stats, from the *)
(* fetch of the page over the merge of the three leaderboards to the      *)
(* upsert (SpecScrape)                                                     *)
(***************************************************************************)

\* Largest value a leaderboard row lists.
MaxListed == 2

\* A value cell of a player a leaderboard does not list.
NotListed == 0 - 1

\* The rank fields of a new record (Python None).
NoRank == 0

\* What get_team_code_map read from alih_teams: team_code -> id.
team_code_map == [code \in {"HLA", "NIK"} |-> IF code = "HLA" THEN 1 ELSE 2]

\* The data_type arguments of the three calls of parse_rank_table.
DataTypes == {"goals", "assists", "points"}

\* The players of the leaderboards; LEE plays for a team alih_teams lacks.
Kim == [name |-> "KIM", number |-> 9, team_code |-> "HLA"]
Sato == [name |-> "SATO", number |-> 17, team_code |-> "NIK"]
Lee == [name |-> "LEE", number |-> 30, team_code |-> "XXX"]
Park == [name |-> "PARK", number |-> 0, team_code |-> "HLA"]

\* The five cells of a data row as lines 64-68 read them; parses is FALSE
\* when one of the three int() conversions raises ValueError.
DataRow(rank, player, value, parses) ==
    [rank |-> rank, name |-> player.name, number |-> player.number,
     team_code |-> player.team_code, value |-> value, parses |-> parses]

\* The rows of KIM and SATO in rank order; a is KIM's value, b is SATO's.
Ranked(a, b) ==
    IF a = NotListed /\ b = NotListed THEN << >>
    ELSE IF b = NotListed THEN << DataRow(1, Kim, a, TRUE) >>
    ELSE IF a = NotListed THEN << DataRow(1, Sato, b, TRUE) >>
    ELSE IF b > a
         THEN << DataRow(1, Sato, b, TRUE), DataRow(2, Kim, a, TRUE) >>
         ELSE << DataRow(1, Kim, a, TRUE), DataRow(2, Sato, b, TRUE) >>

\* A last row the merge has to skip: of an unknown team, or unreadable.
ExtraKinds == {"none", "unknown_team", "unreadable"}

WithExtra(rows, kind) ==
    IF kind = "unknown_team"
    THEN Append(rows, DataRow(Len(rows) + 1, Lee, MaxListed, TRUE))
    ELSE IF kind = "unreadable"
         THEN Append(rows, DataRow(Len(rows) + 1, Park, 1, FALSE))
         ELSE rows

\* What soup holds for one header: the header is missing, or its table.
Tables ==
    { [found |-> FALSE, rows |-> << >>] }
    \cup { [found |-> TRUE, rows |-> WithExtra(Ranked(a, b), kind)] :
             a \in NotListed..MaxListed, b \in NotListed..MaxListed,
             kind \in ExtraKinds }

\* The record created for a key seen for the first time (lines 78-88).
NewRecord(team_id, name, number) ==
    [team_id |-> team_id, player_name |-> name, jersey_number |-> number,
     goals |-> 0, assists |-> 0, points |-> 0,
     goals_rank |-> NoRank, assists_rank |-> NoRank, points_rank |-> NoRank]

\* The assignments of lines 90-98 on the record of the key.
SetValue(data, data_type, value, rank) ==
    IF data_type = "goals"
    THEN [data EXCEPT !.goals = value, !.goals_rank = rank]
    ELSE IF data_type = "assists"
         THEN [data EXCEPT !.assists = value, !.assists_rank = rank]
         ELSE IF data_type = "points"
              THEN [data EXCEPT !.points = value, !.points_rank = rank]
              ELSE data

\* ParseRow creating the record anew for every row (no "not in" test).
ParseRowFresh(dict, row, data_type) ==
    IF ~row.parses
    THEN dict
    ELSE IF row.team_code \notin DOMAIN team_code_map
         THEN dict
         ELSE LET team_id == team_code_map[row.team_code]
                  player_key == <<team_id, row.name>>
                  data == SetValue(NewRecord(team_id, row.name, row.number),
                                   data_type, row.value, row.rank)
              IN  [k \in DOMAIN dict \cup {player_key} |->
                      IF k = player_key THEN data ELSE dict[k]]

\* The body of the loop over the rows (lines 63-101).
ParseRow(dict, row, data_type) ==
    IF ~row.parses
    THEN dict
    ELSE IF row.team_code \notin DOMAIN team_code_map
         THEN dict
         ELSE LET team_id == team_code_map[row.team_code]
                  player_key == <<team_id, row.name>>
                  before == IF player_key \in DOMAIN dict
                            THEN dict[player_key]
                            ELSE NewRecord(team_id, row.name, row.number)
                  data == SetValue(before, data_type, row.value, row.rank)
              IN  [k \in DOMAIN dict \cup {player_key} |->
                      IF k = player_key THEN data ELSE dict[k]]

RECURSIVE ParseRows(_, _, _)
ParseRows(dict, rows, data_type) ==
    IF rows = << >>
    THEN dict
    ELSE ParseRows(ParseRow(dict, Head(rows), data_type), Tail(rows),
                   data_type)

\* parse_rank_table: a missing header leaves players_dict as it is.
parse_rank_table(dict, table, data_type) ==
    IF ~table.found THEN dict ELSE ParseRows(dict, table.rows, data_type)

\* StageAfter with the validation run before the points table is parsed.
StageAfterEarly(stage) ==
    CASE stage = "goals" -> "assists"
      [] stage = "assists" -> "merged"
      [] OTHER -> stage

\* The position after a call of parse_rank_table (lines 126-132): the
\* three calls come one after the other, then the validation.
StageAfter(stage) ==
    CASE stage = "goals" -> "assists"
      [] stage = "assists" -> "points"
      [] stage = "points" -> "merged"
      [] OTHER -> stage

\* The key -> value pairs a table lists in readable rows of known teams.
ListedIn(table) ==
    LET rows == { table.rows[i] : i \in 1..Len(table.rows) }
        good == { r \in rows : r.parses /\ r.team_code \in DOMAIN team_code_map }
        keys == { <<team_code_map[r.team_code], r.name>> : r \in good }
    IN  [k \in keys |->
            (CHOOSE r \in good :
                 <<team_code_map[r.team_code], r.name>> = k).value]

\* The team codes of the readable rows a table lists for unknown teams.
SkippedIn(table) ==
    { table.rows[i].team_code : i \in
        { j \in 1..Len(table.rows) :
            /\ table.rows[j].parses
            /\ table.rows[j].team_code \notin DOMAIN team_code_map } }

ScrapeInit ==
    /\ players_dict = << >>
    /\ raw_dict = << >>
    /\ stat_pc = "start"
    /\ player_stats = << >>
    /\ boards = [t \in DataTypes |-> << >>]
    /\ skipped = {}
    /\ parsed = << >>
    /\ repairs = << >>
    /\ OverlapIdle
    /\ HighlightIdle
    /\ MatchIdle
    /\ KeywordsIdle
    /\ PassIdle
    /\ RunIdle
    /\ WeeklyIdle

\* The fetch of the page and of the team codes (lines 108-121): a network
\* error or an empty team map ends the run before anything is parsed.
Fetch ==
    /\ stat_pc = "start"
    /\ \E outcome \in {"ok", "network_error", "no_team_codes"} :
          stat_pc' = IF outcome = "ok" THEN "goals" ELSE "aborted"
    /\ UNCHANGED <<weeklyVars, players_dict, raw_dict, player_stats, scrapeVars,
                   overlapVars, highlightVars, matchVars, passVars, runVars>>

\* One call of parse_rank_table (lines 126, 129, 132), on any table.
ParseRankTable ==
    /\ stat_pc \in DataTypes
    /\ \E table \in Tables :
          LET merged == parse_rank_table(players_dict, table, stat_pc)
          IN  /\ players_dict' = merged
              /\ raw_dict' = IF stat_pc = "points" THEN merged ELSE raw_dict
              /\ boards' = [boards EXCEPT ![stat_pc] = ListedIn(table)]
              /\ skipped' = skipped \cup SkippedIn(table)
    /\ parsed' = Append(parsed, stat_pc)
    /\ stat_pc' = StageAfter(stat_pc)
    /\ UNCHANGED <<weeklyVars, repairs, player_stats, overlapVars, highlightVars, matchVars, passVars,
                   runVars>>

ScrapeNext == Fetch \/ ParseRankTable \/ Validate \/ Upsert

SpecScrape == ScrapeInit /\ [][ScrapeNext]_vars

(***************************************************************************)
(* The scripts as processes (SpecRun): one run of a script, from the check *)
(* of its settings to its exit.                                            *)
(***************************************************************************)

\* The scripts that read settings from the environment.
Scripts ==
    {"update-live-url.py", "scrape-highlights.py", "scrape-players.py",
     "scrape-standings.py", "scrape-stat.py", "scrape-news.py",
     "capture.py", "capture_weekly.py", "x_content.py"}

\* The scripts that post to the Slack webhook.
Notifiers == {"capture.py", "capture_weekly.py", "x_content.py"}

\* The environment variables of the Supabase client of script s.
DbSettings(s) ==
    IF s \in {"scrape-players.py", "scrape-standings.py", "scrape-stat.py"}
    THEN {"SUPABASE_URL", "SUPABASE_KEY"}
    ELSE {"SUPABASE_URL", "SUPABASE_SERVICE_KEY"}

\* The environment variable of the language-model client of script s.
LlmSettings(s) ==
    IF s \in Notifiers THEN {"GROQ_API_KEY"}
    ELSE IF s = "scrape-news.py" THEN {"GEMINI_API_KEY"}
    ELSE {}

\* The environment variable of the webhook of script s.
HookSettings(s) == IF s \in Notifiers THEN {"SLACK_WEBHOOK_URL"} ELSE {}

Settings ==
    UNION { DbSettings(s) \cup LlmSettings(s) \cup HookSettings(s) :
              s \in Scripts }

\* exit_code of a process that has not exited.
NoExit == 0 - 1

\* capture.py runs its round twice (today's results, tomorrow's previews).
Rounds(s) == IF s = "capture.py" THEN 2 ELSE 1

\* "if not SUPABASE_URL or not SUPABASE_KEY" with the test of the key left
\* out (seeded fault)
CredentialsSetUrlOnly(s, e) == "SUPABASE_URL" \in e

\* The test before create_client: "if not SUPABASE_URL or not SUPABASE_KEY"
\* is false.
CredentialsSet(s, e) == DbSettings(s) \subseteq e

\* The external calls of a script between create_client and its caption or
\* upsert, with and without something to work on.
GatherEffects(s, work) ==
    IF s = "capture_weekly.py"
    THEN IF work THEN {"capture", "db_read"} ELSE {"capture"}
    ELSE IF s = "capture.py"
    THEN IF work THEN {"db_read", "capture"} ELSE {"db_read"}
    ELSE IF s = "x_content.py" THEN {"db_read"}
    ELSE {"db_read", "fetch"}

\* send_to_slack / send_thread_to_slack of script s: the outcome of the
\* post, what is printed about it, whether an exception leaves the
\* function, and the external calls made.
SendToSlack(s, has_hook, outcome) ==
    IF ~has_hook
    THEN [post |-> "none", log |-> "skipped", propagated |-> FALSE,
          effects |-> {}]
    ELSE IF s = "capture_weekly.py"
    \* requests.post outside any try, "Slack sent" printed whatever the status
    THEN [post |-> outcome,
          log |-> IF outcome = "exception" THEN "none" ELSE "success",
          propagated |-> outcome = "exception",
          effects |-> {"upload", "post"}]
    ELSE [post |-> outcome,
          log |-> IF outcome = "ok" THEN "success" ELSE "failure",
          propagated |-> FALSE,
          effects |-> IF s = "capture.py" THEN {"upload", "post"}
                      ELSE {"post"}]

RunInit ==
    /\ script \in Scripts
    /\ env \in SUBSET Settings
    /\ run_pc = "start"
    /\ effects = {}
    /\ exit_code = NoExit
    /\ post = "none"
    /\ post_log = "none"
    /\ propagated = FALSE
    /\ rounds_left = Rounds(script)
    /\ StatIdle
    /\ MatchIdle
    /\ KeywordsIdle
    /\ PassIdle
    /\ RestIdle

\* The check of the Supabase settings, at import or first in main():
\* EnvironmentError (exit(1) in scrape-news.py) or create_client.
Startup ==
    /\ run_pc = "start"
    /\ IF CredentialsSet(script, env)
       THEN run_pc' = "gather" /\ exit_code' = exit_code
       ELSE run_pc' = "exit" /\ exit_code' = 1
    /\ UNCHANGED <<restVars, script, env, effects, post, post_log, propagated,
                   rounds_left, statVars, matchVars, passVars>>

\* Reads of the tables, scraping and screenshots; with nothing to work on
\* the round (or the run) ends.
Gather ==
    /\ run_pc = "gather"
    /\ \E work \in BOOLEAN :
          /\ effects' = effects \cup GatherEffects(script, work)
          /\ run_pc' = IF work
                       THEN IF LlmSettings(script) # {} THEN "caption"
                            ELSE "store"
                       ELSE IF rounds_left > 1 THEN "gather" ELSE "finish"
          /\ rounds_left' = IF ~work /\ rounds_left > 1
                            THEN rounds_left - 1 ELSE rounds_left
    /\ UNCHANGED <<restVars, script, env, exit_code, post, post_log, propagated,
                   statVars, matchVars, passVars>>

\* generate_caption, generate_weekly_caption, generate_review_thread,
\* generate_preview_thread, get_ai_summary: without the key a fixed text
\* (x_content.py: no tweets), with it a call whose failure is caught.
Caption ==
    /\ run_pc = "caption"
    /\ \E llm_ok \in BOOLEAN :
          LET has_key == LlmSettings(script) \subseteq env
              tweets == has_key /\ llm_ok
          IN  /\ effects' = IF has_key THEN effects \cup {"llm"} ELSE effects
              /\ run_pc' = IF script \notin Notifiers THEN "store"
                           ELSE IF script = "x_content.py" /\ ~tweets
                           THEN "finish"
                           ELSE "send"
    /\ UNCHANGED <<restVars, script, env, exit_code, post, post_log, propagated,
                   rounds_left, statVars, matchVars, passVars>>

\* The call of send_to_slack / send_thread_to_slack in main().
Send ==
    /\ run_pc = "send"
    /\ \E outcome \in {"ok", "non200", "exception"} :
          LET sent == SendToSlack(script, HookSettings(script) \subseteq env,
                                  outcome)
          IN  /\ post' = sent.post
              /\ post_log' = sent.log
              /\ propagated' = sent.propagated
              /\ effects' = effects \cup sent.effects
              /\ run_pc' = IF sent.propagated THEN "exit"
                           ELSE IF rounds_left > 1 THEN "gather"
                           ELSE "finish"
              /\ exit_code' = IF sent.propagated THEN 1 ELSE exit_code
              /\ rounds_left' = IF ~sent.propagated /\ rounds_left > 1
                                THEN rounds_left - 1 ELSE rounds_left
    /\ UNCHANGED <<restVars, script, env, statVars, matchVars, passVars>>

\* The update or upsert of the scrapers and of the updater.
Store ==
    /\ run_pc = "store"
    /\ effects' = effects \cup {"db_write"}
    /\ run_pc' = "finish"
    /\ UNCHANGED <<restVars, script, env, exit_code, post, post_log, propagated,
                   rounds_left, statVars, matchVars, passVars>>

\* main() returns.
Finish ==
    /\ run_pc = "finish"
    /\ exit_code' = 0
    /\ run_pc' = "exit"
    /\ UNCHANGED <<restVars, script, env, effects, post, post_log, propagated,
                   rounds_left, statVars, matchVars, passVars>>

RunNext == Startup \/ Gather \/ Caption \/ Send \/ Store \/ Finish

SpecRun == RunInit /\ [][RunNext]_vars

(***************************************************************************)
(* capture_weekly.py (SpecWeekly): one run of main(), from init_supabase   *)
(* over the two captures and the caption to the blocks sent to Slack.      *)
(***************************************************************************)

\* The environment variables capture_weekly.py reads (lines 19-22).
WeeklySettings ==
    DbSettings("capture_weekly.py") \cup LlmSettings("capture_weekly.py")
        \cup HookSettings("capture_weekly.py")

\* The files capture_weekly_stats and capture_standings write.
StatsImage == "weekly_stats.png"
StandingsImage == "standings.png"

\* labels of line 282
labels == <<"Weekly Stats", "Standings">>

\* The public url of an uploaded file: it ends in the file's name.
PublicUrl(file_path) == <<"weekly_", file_path>>

\* The blocks ahead of the images (lines 270-280).
HeadBlocks(caption_text) ==
    << [type |-> "header", text |-> "Weekly Update"],
       [type |-> "section", text |-> caption_text],
       [type |-> "divider", text |-> ""] >>

\* image_urls of lines 265-268: the urls of the uploads that worked, in the
\* order of image_paths.
RECURSIVE ImageUrls(_, _, _)
ImageUrls(image_paths, uploads, i) ==
    IF i > Len(image_paths) THEN << >>
    ELSE IF uploads[i]
         THEN << PublicUrl(image_paths[i]) >>
                  \o ImageUrls(image_paths, uploads, i + 1)
         ELSE ImageUrls(image_paths, uploads, i + 1)

\* The image blocks of lines 283-290: the i-th url gets the i-th label.
ImageBlocks(image_urls) ==
    [i \in 1..Len(image_urls) |->
        [type |-> "image", image_url |-> image_urls[i],
         alt_text |-> IF i <= Len(labels) THEN labels[i]
                      ELSE "Image"]]

WeeklyInit ==
    /\ wk_env \in SUBSET WeeklySettings
    /\ wk_pc = "start"
    /\ images = << >>
    /\ caption = "none"
    /\ blocks = << >>
    /\ wk_post = "none"
    /\ wk_exit = NoExit
    /\ StatIdle
    /\ ScrapeIdle
    /\ OverlapIdle
    /\ HighlightIdle
    /\ MatchIdle
    /\ KeywordsIdle
    /\ PassIdle
    /\ RunIdle

\* init_supabase (lines 29-33): EnvironmentError without the settings.
WeeklyStartup ==
    /\ wk_pc = "start"
    /\ IF CredentialsSet("capture_weekly.py", wk_env)
       THEN wk_pc' = "capture_stats" /\ wk_exit' = wk_exit
       ELSE wk_pc' = "exit" /\ wk_exit' = 1
    /\ UNCHANGED <<wk_env, images, caption, blocks, wk_post, statVars,
                   scrapeVars, overlapVars, highlightVars, matchVars,
                   passVars, runVars>>

\* The first try of main() (lines 306-310).
CaptureWeeklyStats ==
    /\ wk_pc = "capture_stats"
    /\ \E ok \in BOOLEAN :
          images' = IF ok THEN Append(images, StatsImage) ELSE images
    /\ wk_pc' = "capture_standings"
    /\ UNCHANGED <<wk_env, caption, blocks, wk_post, wk_exit, statVars,
                   scrapeVars, overlapVars, highlightVars, matchVars,
                   passVars, runVars>>

\* The second try of main() and the test for no image (lines 312-320).
CaptureStandings ==
    /\ wk_pc = "capture_standings"
    /\ \E ok \in BOOLEAN :
          LET got == IF ok THEN Append(images, StandingsImage) ELSE images
          IN  /\ images' = got
              /\ wk_pc' = IF got = << >> THEN "exit" ELSE "caption"
              /\ wk_exit' = IF got = << >> THEN 0 ELSE wk_exit
    /\ UNCHANGED <<wk_env, caption, blocks, wk_post, statVars, scrapeVars,
                   overlapVars, highlightVars, matchVars, passVars, runVars>>

\* The reads and generate_weekly_caption (lines 323-328): a fixed text
\* without the key or when the call fails.
WeeklyCaption ==
    /\ wk_pc = "caption"
    /\ \E llm_ok \in BOOLEAN :
          caption' = IF "GROQ_API_KEY" \in wk_env /\ llm_ok
                     THEN "generated" ELSE "fixed"
    /\ wk_pc' = "send"
    /\ UNCHANGED <<wk_env, images, blocks, wk_post, wk_exit, statVars,
                   scrapeVars, overlapVars, highlightVars, matchVars,
                   passVars, runVars>>

\* send_to_slack (lines 259-293) and the end of main().
WeeklySend ==
    /\ wk_pc = "send"
    /\ IF "SLACK_WEBHOOK_URL" \notin wk_env
       THEN /\ wk_exit' = 0
            /\ UNCHANGED <<blocks, wk_post>>
       ELSE \E uploads \in [1..Len(images) -> BOOLEAN],
               outcome \in {"ok", "non200", "exception"} :
               /\ blocks' = HeadBlocks(caption)
                              \o ImageBlocks(ImageUrls(images, uploads, 1))
               /\ wk_post' = outcome
               /\ wk_exit' = IF outcome = "exception" THEN 1 ELSE 0
    /\ wk_pc' = "exit"
    /\ UNCHANGED <<wk_env, images, caption, statVars, scrapeVars,
                   overlapVars, highlightVars, matchVars, passVars, runVars>>

WeeklyNext ==
    \/ WeeklyStartup
    \/ CaptureWeeklyStats
    \/ CaptureStandings
    \/ WeeklyCaption
    \/ WeeklySend

SpecWeekly == WeeklyInit /\ [][WeeklyNext]_vars

Validated == stat_pc \in {"validated", "done"}

Consistent(data) == Sum(data) = data.points

\* points > goals + assists with exactly one of goals/assists zero.
OneMissing(data) ==
    /\ data.points > Sum(data)
    /\ \/ data.goals > 0 /\ data.assists = 0
       \/ data.assists > 0 /\ data.goals = 0

\* points > goals + assists with goals and assists both zero or both positive.
Ambiguous(data) ==
    /\ data.points > Sum(data)
    /\ (data.goals = 0) <=> (data.assists = 0)

(***************************************************************************)
(* Claims on the stat cross-validation (SpecStat)                          *)
(***************************************************************************)

\* C5: the repair is idempotent: repairing an already repaired record
\* changes nothing, for every merged record of non-negative counters.
C5_Idempotent ==
    Validated =>
        \A k \in DOMAIN players_dict :
            /\ players_dict[k] = Reconcile(raw_dict[k])
            /\ Reconcile(players_dict[k]) = players_dict[k]

\* a record was repaired by CASE 1 (the branch a second application could undo)
C5_Witness ==
    /\ Validated
    /\ \E k \in DOMAIN players_dict :
          OneMissing(raw_dict[k]) /\ players_dict[k] # raw_dict[k]

\* C6: when points > goals + assists and exactly one of goals/assists is
\* zero (the other positive), the zero counter becomes points - (goals +
\* assists), the other two counters keep their values, and the result has
\* points = goals + assists.
C6_Step1FillsMissing ==
    Validated =>
        \A k \in DOMAIN players_dict :
            LET r == raw_dict[k]
                d == players_dict[k]
                gap == r.points - Sum(r)
            IN  OneMissing(r) =>
                  /\ d.points = r.points
                  /\ r.assists = 0 => (d.assists = gap /\ d.goals = r.goals)
                  /\ r.goals = 0 => (d.goals = gap /\ d.assists = r.assists)
                  /\ Consistent(d)

\* the worked example {12, 0, 17} -> {12, 5, 17}, and the mirrored branch
C6_Witness ==
    /\ Validated
    /\ \E k \in DOMAIN players_dict :
          /\ raw_dict[k] = [goals |-> 12, assists |-> 0, points |-> 17]
          /\ players_dict[k] = [goals |-> 12, assists |-> 5, points |-> 17]
    /\ \E k \in DOMAIN players_dict :
          /\ raw_dict[k].goals = 0 /\ raw_dict[k].assists > 0
          /\ players_dict[k].goals > 0

\* C7: when goals + assists, as they stand after CASE 1, exceeds points,
\* points becomes goals + assists and goals and assists keep their values.
C7_Step2RaisesPoints ==
    Validated =>
        \A k \in DOMAIN players_dict :
            LET r == raw_dict[k]
                s == Case1(r)
            IN  Sum(s) > s.points =>
                  players_dict[k] = [r EXCEPT !.points = r.goals + r.assists]

\* the worked example {0, 6, 0} -> {0, 6, 6}
C7_Witness ==
    /\ Validated
    /\ \E k \in DOMAIN players_dict :
          /\ raw_dict[k] = [goals |-> 0, assists |-> 6, points |-> 0]
          /\ players_dict[k] = [goals |-> 0, assists |-> 6, points |-> 6]

\* C8 as stated: every record whose raw values were inconsistent is
\* consistent after the repair.
C8_Original ==
    Validated =>
        \A k \in DOMAIN players_dict :
            ~Consistent(raw_dict[k]) => Consistent(players_dict[k])

\* C8 amended: a record whose raw values were inconsistent is consistent
\* after the repair, except when points > goals + assists with goals and
\* assists both zero or both positive; exactly those records stay
\* inconsistent, and they are left as they were.
C8_Amended ==
    Validated =>
        \A k \in DOMAIN players_dict :
            LET r == raw_dict[k]
                d == players_dict[k]
            IN  ~Consistent(r) =>
                  /\ ~Ambiguous(r) => Consistent(d)
                  /\ Ambiguous(r) => (d = r /\ ~Consistent(d))

\* one record repaired next to one left inconsistent as it was
C8_Witness ==
    /\ Validated
    /\ \E k \in DOMAIN players_dict :
          ~Consistent(raw_dict[k]) /\ Consistent(players_dict[k])
    /\ \E k \in DOMAIN players_dict :
          /\ Ambiguous(raw_dict[k])
          /\ ~Consistent(players_dict[k])

\* C9: a consistent record is returned unchanged; so is a record with
\* points > 0 = goals = assists; and any record that is still inconsistent
\* after the repair is identical to its input.
C9_PassThrough ==
    Validated =>
        \A k \in DOMAIN players_dict :
            LET r == raw_dict[k]
                d == players_dict[k]
            IN  /\ Consistent(r) => d = r
                /\ (r.points > Sum(r) /\ r.goals = 0 /\ r.assists = 0) => d = r
                /\ ~Consistent(d) => d = r

\* the consistent example {3, 4, 7} next to a record with the 0/0 gap
C9_Witness ==
    /\ Validated
    /\ \E k \in DOMAIN players_dict :
          /\ raw_dict[k] = [goals |-> 3, assists |-> 4, points |-> 7]
          /\ players_dict[k] = raw_dict[k]
    /\ \E k \in DOMAIN players_dict :
          /\ raw_dict[k].goals = 0 /\ raw_dict[k].assists = 0
          /\ raw_dict[k].points > 0
          /\ players_dict[k] = raw_dict[k]

(***************************************************************************)
(* Claims on match_stream_to_game (SpecMatch)                              *)
(***************************************************************************)

Called == match_pc = "returned"

\* Every candidate of the list has a title (a string).
AllTitled == \A i \in 1..Len(match_streams) : match_streams[i].title # NoTitle

\* The candidate carries a scheduled start within 2 hours of the fixture's.
TimeEligible(stream) ==
    /\ stream.scheduled_time # NoTime
    /\ stream.scheduled_time - Parse(match_game.match_at) <= 2
    /\ Parse(match_game.match_at) - stream.scheduled_time <= 2

\* The candidate's title contains a keyword of the fixture's away team.
HasKeyword(stream) ==
    KeywordIn(AwayKeywords(match_game, TeamById), stream.title)

\* The date strings of a fixture played on 2026-01-13, as section 4.1 lists
\* them: YYYY.MM.DD, YYYY/MM/DD, MM.DD, MM/DD and the localized month/day.
DateStrings0113 ==
    { <<"2", "0", "2", "6", ".", "0", "1", ".", "1", "3">>,
      <<"2", "0", "2", "6", "/", "0", "1", "/", "1", "3">>,
      <<"0", "1", ".", "1", "3">>,
      <<"0", "1", "/", "1", "3">>,
      <<"1", "U+6708", "1", "3", "U+65E5">> }

\* The candidate's title contains one of the fixture's date strings (every
\* fixture drawn is played on 2026-01-13).
HasDate(stream) ==
    /\ Slice(match_game.match_at, 0, 10) = Slice(MatchAt1310, 0, 10)
    /\ \E d \in DateStrings0113 : Contains(d, stream.title)

Flagged(stream) ==
    stream.is_live \/ stream.live_status = "is_upcoming"
        \/ stream.live_status = "is_live"

Indices == 1..Len(match_streams)

\* C1: if some candidate carries a scheduled start within 2 hours of the
\* fixture's, the call never gets to the liveness+keyword or the
\* date+keyword tier, and (every candidate having a title) it returns a
\* candidate at the timestamp tier.
C1_TimestampTierFirst ==
    (Called /\ \E i \in Indices : TimeEligible(match_streams[i])) =>
        /\ match_result.how \notin {"live+team", "date+team", "none"}
        /\ AllTitled =>
             /\ match_result.how \in {"time+team", "time"}
             /\ \E i \in Indices : /\ TimeEligible(match_streams[i])
                                   /\ match_result.url = match_streams[i].url

\* a candidate exactly 2 hours off, behind a candidate of the date+keyword
\* tier, was returned at the timestamp tier
C1_Witness ==
    /\ Called
    /\ Len(match_streams) = 2
    /\ AllTitled
    /\ HasDate(match_streams[1]) /\ HasKeyword(match_streams[1])
    /\ ~TimeEligible(match_streams[1])
    /\ TimeEligible(match_streams[2])
    /\ match_result.url = match_streams[2].url
    /\ match_result.how = "time"

\* C11: a candidate with a scheduled start is time-eligible exactly when it
\* starts at most 2 hours before or after the fixture (2 hours included);
\* a call that returns at the timestamp tier returns a time-eligible
\* candidate, and (every candidate having a title) a call on a list with a
\* time-eligible candidate returns one at the timestamp tier, without a
\* keyword match when no title contains an away-team keyword.
C11_ToleranceInclusive ==
    /\ \A i \in Indices :
          match_streams[i].scheduled_time # NoTime =>
              (WithinTolerance(match_streams[i].scheduled_time,
                               Parse(match_game.match_at))
                  <=> TimeEligible(match_streams[i]))
    /\ Called =>
          /\ match_result.how \in {"time+team", "time"} =>
                \A i \in Indices :
                    match_result.url = match_streams[i].url =>
                        TimeEligible(match_streams[i])
          /\ (AllTitled /\ \E i \in Indices : TimeEligible(match_streams[i])) =>
                /\ match_result.how \in {"time+team", "time"}
                /\ \E i \in Indices : /\ TimeEligible(match_streams[i])
                                      /\ match_result.url = match_streams[i].url
                /\ (\A i \in Indices : ~HasKeyword(match_streams[i])) =>
                      match_result.how = "time"

\* of two candidates without an away-team keyword, the first starting 3
\* hours before the 15:00 fixture and the second exactly 2 hours before it,
\* the second was returned
C11_Witness ==
    /\ Called
    /\ match_game = Fixtures[2]
    /\ Len(match_streams) = 2
    /\ AllTitled
    /\ ~HasKeyword(match_streams[1]) /\ ~HasKeyword(match_streams[2])
    /\ match_streams[1].scheduled_time = Parse(match_game.match_at) - 3
    /\ match_streams[2].scheduled_time = Parse(match_game.match_at) - 2
    /\ match_result = [url |-> match_streams[2].url, how |-> "time"]

\* C12: a call that returns at the liveness+keyword tier returns a candidate
\* flagged live or upcoming whose title contains an away-team keyword; when
\* no candidate carries a scheduled start (and every candidate has a
\* title), the call returns the first candidate in list order that is
\* flagged and has a keyword, if there is one.
C12_LivenessTier ==
    Called =>
        /\ match_result.how = "live+team" =>
              \A i \in Indices :
                  match_result.url = match_streams[i].url =>
                      Flagged(match_streams[i]) /\ HasKeyword(match_streams[i])
        /\ (AllTitled /\ \A i \in Indices :
                            match_streams[i].scheduled_time = NoTime) =>
              \A i \in Indices :
                  ( /\ Flagged(match_streams[i])
                    /\ HasKeyword(match_streams[i])
                    /\ \A j \in 1..(i - 1) :
                          ~(Flagged(match_streams[j])
                              /\ HasKeyword(match_streams[j])) ) =>
                      match_result = [url |-> match_streams[i].url,
                                      how |-> "live+team"]

\* behind a live stream without a keyword, an upcoming stream with a keyword
\* and no scheduled start was returned
C12_Witness ==
    /\ Called
    /\ Len(match_streams) = 2
    /\ \A i \in Indices : match_streams[i].scheduled_time = NoTime
    /\ match_streams[1].is_live /\ ~HasKeyword(match_streams[1])
    /\ ~match_streams[2].is_live
    /\ match_streams[2].live_status = "is_upcoming"
    /\ HasKeyword(match_streams[2])
    /\ match_result = [url |-> match_streams[2].url, how |-> "live+team"]


\* C2: of two candidates both within the tolerance, one with an away-team
\* keyword in its title and one without, the call returns the one with the
\* keyword, in whichever order they are listed.
C2_KeywordPreferred ==
    ( /\ Called
      /\ Len(match_streams) = 2
      /\ AllTitled
      /\ \A i \in Indices : TimeEligible(match_streams[i]) ) =>
        \A i, j \in Indices :
            (HasKeyword(match_streams[i]) /\ ~HasKeyword(match_streams[j]))
                => match_result.url = match_streams[i].url

\* C3: when no candidate carries a timestamp, none is flagged live or
\* upcoming, and exactly one title contains both a date string of the
\* fixture and an away-team keyword, the call returns that candidate.
C3_DateKeywordFallback ==
    ( /\ Called
      /\ AllTitled
      /\ \A i \in Indices : /\ match_streams[i].scheduled_time = NoTime
                            /\ ~Flagged(match_streams[i]) ) =>
        \A i \in Indices :
            ( /\ HasDate(match_streams[i]) /\ HasKeyword(match_streams[i])
              /\ \A j \in Indices \ {i} :
                    ~(HasDate(match_streams[j]) /\ HasKeyword(match_streams[j])) )
                => /\ match_result.url = match_streams[i].url
                   /\ match_result.how = "date+team"

\* the one date+keyword title sits second, behind a title with the date only
C3_Witness ==
    /\ Called
    /\ Len(match_streams) = 2
    /\ \A i \in Indices : /\ match_streams[i].scheduled_time = NoTime
                          /\ ~Flagged(match_streams[i])
                          /\ match_streams[i].title # NoTitle
    /\ HasDate(match_streams[1]) /\ ~HasKeyword(match_streams[1])
    /\ HasDate(match_streams[2]) /\ HasKeyword(match_streams[2])
    /\ match_result = [url |-> match_streams[2].url, how |-> "date+team"]

\* The tiers as section 4.1 words them ...
SpecTier(stream) ==
    IF TimeEligible(stream) THEN 1
    ELSE IF Flagged(stream) /\ HasKeyword(stream) THEN 2
    ELSE IF HasDate(stream) /\ HasKeyword(stream) THEN 3
    ELSE 4

\* ... and with the liveness+keyword tier open only to candidates that
\* carry no timestamp.
CodeTier(stream) ==
    IF TimeEligible(stream) THEN 1
    ELSE IF Flagged(stream) /\ stream.scheduled_time = NoTime
            /\ HasKeyword(stream) THEN 2
    ELSE IF HasDate(stream) /\ HasKeyword(stream) THEN 3
    ELSE 4

HowTier(how) ==
    CASE how \in {"time+team", "time"} -> 1
      [] how = "live+team" -> 2
      [] how = "date+team" -> 3
      [] OTHER -> 4

\* C10 as stated, the tiers read as section 4.1 words them: the result is
\* the earliest candidate of the best tier any candidate satisfies.
C10_Original ==
    (Called /\ AllTitled) =>
        \A i \in Indices :
            ( /\ SpecTier(match_streams[i]) < 4
              /\ \A j \in Indices :
                    \/ SpecTier(match_streams[j]) > SpecTier(match_streams[i])
                    \/ SpecTier(match_streams[j]) = SpecTier(match_streams[i])
                         /\ j >= i )
                => match_result.url = match_streams[i].url

\* C10 amended: with the liveness+keyword tier open only to candidates
\* without a timestamp, the result is the earliest candidate of the best
\* tier any candidate satisfies, returned at that tier; a candidate of a
\* lower tier is never returned past a candidate of a higher one; and the
\* call returns nothing when no candidate satisfies any tier.
C10_Cascade ==
    (Called /\ AllTitled) =>
        /\ \A i \in Indices :
            ( /\ CodeTier(match_streams[i]) < 4
              /\ \A j \in Indices :
                    \/ CodeTier(match_streams[j]) > CodeTier(match_streams[i])
                    \/ CodeTier(match_streams[j]) = CodeTier(match_streams[i])
                         /\ j >= i )
                => /\ match_result.url = match_streams[i].url
                   /\ HowTier(match_result.how) = CodeTier(match_streams[i])
        /\ (\A i \in Indices : CodeTier(match_streams[i]) = 4)
                => match_result = NoMatch

\* a liveness+keyword candidate listed second was returned past a
\* date+keyword candidate listed first
C10_Witness ==
    /\ Called
    /\ Len(match_streams) = 2
    /\ AllTitled
    /\ CodeTier(match_streams[1]) = 3
    /\ CodeTier(match_streams[2]) = 2
    /\ match_result = [url |-> match_streams[2].url, how |-> "live+team"]

(***************************************************************************)
(* Claims on the updater passes (Spec)                                     *)
(***************************************************************************)

\* The fixtures the running pass has yet to process.
Pending == { upcoming_games[i].id : i \in idx..Len(upcoming_games) }

\* C4: passes running one at a time, a fixture whose live_url is set is
\* not among the fixtures a pass selected and has yet to process, and no
\* step changes a live_url that is set: the stored URL never changes.
C4_UrlSetOnce ==
    /\ [](pc = "loop" => \A id \in Pending : live_url[id] = NoUrl)
    /\ [][\A id \in DOMAIN live_url :
             live_url[id] # NoUrl => live_url'[id] = live_url[id]]_vars

\* a pass is in its loop over another fixture while a fixture inside that
\* pass's time window, with its live_url set, was left out
C4_Witness ==
    /\ pc = "loop"
    /\ \E id \in DOMAIN live_url :
          /\ live_url[id] # NoUrl
          /\ id \in QueryRows(now, live_url, SupportedTeamIds)
          /\ id \notin { upcoming_games[i].id : i \in 1..Len(upcoming_games) }
    /\ live_url[upcoming_games[idx].id] = NoUrl

(***************************************************************************)
(* Claims on the loop of main() (Spec)                                     *)
(***************************************************************************)

\* A step of the loop of main(): the iteration over upcoming_games[idx].
LoopStep == pc = "loop" /\ idx' # idx

\* The loop goes on with the next fixture of the batch, if there is one.
Advanced ==
    idx < Len(upcoming_games) =>
        /\ pc' = "loop"
        /\ idx' = idx + 1
        /\ upcoming_games' = upcoming_games

\* The fixtures the pass selected.
Selected == { upcoming_games[i].id : i \in 1..Len(upcoming_games) }

\* The fixture starts within 6 hours from the now of the latest pass.
InWindow(id) ==
    /\ now <= Parse(Fixtures[id].match_at)
    /\ Parse(Fixtures[id].match_at) <= now + 6

\* The fixture's home team has a channel configured.
HomeHasChannel(id) ==
    TeamById[Fixtures[id].home_alih_team_id].english_name
        \in DOMAIN TEAM_YOUTUBE_CHANNELS

\* C13: an iteration whose listing of the channel fails (non-zero exit,
\* timeout or any other exception) does not call the matcher, writes
\* nothing, and the loop goes on with the next fixture.
C13_ListingFailureSkips ==
    [][(LoopStep /\ last'.listing \in {"nonzero", "timeout", "exception"}) =>
          /\ ~last'.called
          /\ last'.written = "no"
          /\ live_url' = live_url
          /\ Advanced]_vars

\* the listing for the first of two fixtures timed out, nothing was written
\* and the loop stands at the second fixture
C13_Witness ==
    /\ pc = "loop"
    /\ idx = 2
    /\ last.listing = "timeout"
    /\ last.id = upcoming_games[1].id
    /\ live_url[last.id] = NoUrl

\* The matcher found nothing for the latest fixture: nothing written.
NothingWritten ==
    (last.called /\ last.result.how = "none") =>
        /\ last.written = "no"
        /\ live_url[last.id] = NoUrl

\* C14 as stated: the matcher finding nothing for a fixture, nothing is
\* written for it, and the next pass (its queries succeeding) selects it
\* again.
C14_Original ==
    /\ NothingWritten
    /\ pass_ok => carried \subseteq Selected

\* C14: the matcher finding nothing for a fixture, nothing is written for
\* it, and the next pass selects it again whenever its two queries succeed
\* and the fixture still starts within [now, now + 6 h] of that pass.
C14_RetriedWhileDue ==
    /\ NothingWritten
    /\ \A id \in carried :
          (pass_ok /\ InWindow(id)) => id \in Selected

\* a fixture the pass before found nothing for was selected again, and the
\* matcher found nothing for it again
C14_Witness ==
    /\ pc = "loop"
    /\ last.id \in carried
    /\ last.called
    /\ last.result.how = "none"
    /\ live_url[last.id] = NoUrl

\* C15: an iteration in which an item cannot be handled (a candidate whose
\* title is null makes match_stream_to_game raise) skips that fixture only:
\* the loop goes on with the next fixture.
C15_ItemFailureSkipsOnlyFixture ==
    [][(LoopStep /\ last'.result.how = "raise") => Advanced]_vars

\* C16: a fixture handed to the matcher starts within [now, now + 6 h], has
\* an empty live_url and a home team with a channel; a live_url is only
\* written for such a fixture.
C16_OnlyDueFixtures ==
    [][LoopStep =>
          /\ last'.called =>
                /\ InWindow(last'.id)
                /\ HomeHasChannel(last'.id)
                /\ live_url[last'.id] = NoUrl
          /\ \A id \in DOMAIN live_url :
                live_url'[id] # live_url[id] =>
                    /\ InWindow(id)
                    /\ HomeHasChannel(id)
                    /\ live_url[id] = NoUrl]_vars

\* the matcher ran for the 10:00 fixture of the Red Eagles while the 15:00
\* fixture was more than 6 hours away and the 10:00 fixture of the
\* Icebucks, who have no channel, was left out
C16_Witness ==
    /\ last.called
    /\ last.id = 1
    /\ InWindow(1)
    /\ ~InWindow(2)
    /\ InWindow(3) /\ ~HomeHasChannel(3) /\ live_url[3] = NoUrl

C20_WriteFrame ==
    [][LoopStep =>
          /\ \A id \in DOMAIN live_url :
                live_url'[id] # live_url[id] =>
                    /\ id = upcoming_games[idx].id
                    /\ last'.called
                    /\ last'.result.url # NoUrl
                    /\ live_url'[id] = last'.result.url
          /\ last'.written = "yes" =>
                live_url'[upcoming_games[idx].id] = last'.result.url
          /\ last'.written = "failed" =>
                /\ live_url' = live_url
                /\ Advanced]_vars

\* the write for the first of two fixtures failed: it is left unassigned
\* and the loop stands at the second fixture
C20_Witness ==
    /\ pc = "loop"
    /\ idx = 2
    /\ last.id = upcoming_games[1].id
    /\ last.result.url # NoUrl
    /\ last.written = "failed"
    /\ live_url[last.id] = NoUrl

(***************************************************************************)
(* Claims on the runs of the scripts (SpecRun)                             *)
(***************************************************************************)

\* A setting the script reads is not set.
SettingMissing ==
    ~(DbSettings(script) \cup LlmSettings(script) \cup HookSettings(script)
          \subseteq env)

DbMissing == ~(DbSettings(script) \subseteq env)

\* The run made no external call and is at its start or ended non-zero.
FatalAtStartup ==
    /\ effects = {}
    /\ run_pc \in {"start", "exit"}
    /\ run_pc = "exit" => exit_code \notin {0, NoExit}

C18_FireAndForget ==
    post \in {"non200", "exception"} =>
        /\ ~propagated
        /\ post_log = "failure"
        /\ run_pc = "exit" => exit_code = 0

(***************************************************************************)
(* Claims on a whole stat-scrape run (SpecScrape)                          *)
(***************************************************************************)

\* The keys some leaderboard listed in a readable row of a known team.
ListedKeys == UNION { DOMAIN boards[t] : t \in DataTypes }

\* The value a leaderboard lists for a key, 0 when it does not list it.
ListedValue(t, k) == IF k \in DOMAIN boards[t] THEN boards[t][k] ELSE 0

\* C21: after the three leaderboards are merged there is exactly one record
\* per (team, player name) key listed, the record carries its key, each of
\* its goals, assists and points is the value the corresponding leaderboard
\* lists for the key, or 0 when that leaderboard does not list it, whatever
\* the other two leaderboards list; rows of an unknown team code create no
\* record.
C21_MergeByKey ==
    stat_pc = "merged" =>
        /\ DOMAIN players_dict = ListedKeys
        /\ \A k \in DOMAIN players_dict :
              /\ players_dict[k].team_id = k[1]
              /\ players_dict[k].player_name = k[2]
              /\ \A t \in DataTypes : players_dict[k][t] = ListedValue(t, k)
              /\ \E code \in DOMAIN team_code_map : team_code_map[code] = k[1]
              /\ k[2] # Lee.name

\* one player listed by every leaderboard, one listed for goals only, and
\* a row of an unknown team skipped
C21_Witness ==
    /\ stat_pc = "merged"
    /\ skipped # {}
    /\ \E k \in DOMAIN players_dict :
          \A t \in DataTypes : k \in DOMAIN boards[t] /\ boards[t][k] > 0
    /\ \E k \in DOMAIN players_dict :
          /\ k \in DOMAIN boards["goals"] /\ players_dict[k].goals > 0
          /\ k \notin DOMAIN boards["assists"] /\ players_dict[k].assists = 0
          /\ k \notin DOMAIN boards["points"] /\ players_dict[k].points = 0

\* C22: in a stat-scrape run the repair runs exactly once on each merged
\* record, after the goals, assists and points leaderboards have all been
\* merged and before the upsert; the values upserted are the repaired
\* ones, and no leaderboard is merged once a record has been repaired.
C22_RepairOnceAfterMerge ==
    /\ [](/\ stat_pc \notin {"validated", "done"} =>
              repairs = << >> /\ player_stats = << >>
          /\ stat_pc \in {"validated", "done"} =>
              /\ parsed = <<"goals", "assists", "points">>
              /\ DOMAIN repairs = DOMAIN raw_dict
              /\ \A k \in DOMAIN raw_dict : repairs[k] = 1
              /\ players_dict =
                    [k \in DOMAIN raw_dict |-> Reconcile(raw_dict[k])]
          /\ player_stats # << >> =>
              /\ stat_pc = "done"
              /\ player_stats =
                    [k \in DOMAIN raw_dict |-> Reconcile(raw_dict[k])])
    /\ [][repairs # << >> =>
            /\ parsed' = parsed
            /\ boards' = boards
            /\ players_dict' = players_dict]_vars

\* a run that upserted a record the repair changed, merged from all three
\* leaderboards
C22_Witness ==
    /\ stat_pc = "done"
    /\ \E k \in DOMAIN player_stats :
          /\ \A t \in DataTypes : k \in DOMAIN boards[t]
          /\ player_stats[k] # raw_dict[k]
          /\ repairs[k] = 1

(***************************************************************************)
(* Further claims on the stat cross-validation                             *)
(***************************************************************************)

\* C23: for every record of non-negative counters the repaired record has
\* points >= goals + assists: the only inconsistency that survives the
\* repair is points exceeding the sum.
C23_PointsAtLeastSum ==
    Validated =>
        \A k \in DOMAIN players_dict :
            /\ raw_dict[k].goals >= 0
            /\ raw_dict[k].assists >= 0
            /\ raw_dict[k].points >= 0
            /\ players_dict[k].points >= Sum(players_dict[k])

\* a record whose sum exceeded its points next to one whose points still
\* exceed the sum after the repair
C23_Witness ==
    /\ Validated
    /\ \E k \in DOMAIN players_dict :
          /\ Sum(raw_dict[k]) > raw_dict[k].points
          /\ players_dict[k].points = Sum(players_dict[k])
    /\ \E k \in DOMAIN players_dict :
          players_dict[k].points > Sum(players_dict[k])

\* The fields of a record the repair left with another value.
ChangedFields(k) ==
    { f \in DOMAIN raw_dict[k] : players_dict[k][f] # raw_dict[k][f] }

\* C24: the repair changes at most one field of a record, that field is
\* goals, assists or points, and its value only grows; team_id,
\* player_name, jersey_number and the three rank fields keep their
\* values; CASE 1 and CASE 2 never both change the same record.
C24_RepairFrame ==
    Validated =>
        \A k \in DOMAIN players_dict :
            LET r == raw_dict[k]
                d == players_dict[k]
            IN  /\ DOMAIN d = DOMAIN r
                /\ Cardinality(ChangedFields(k)) <= 1
                /\ ChangedFields(k) \subseteq {"goals", "assists", "points"}
                /\ \A f \in ChangedFields(k) : d[f] > r[f]
                /\ {"team_id", "player_name", "jersey_number", "goals_rank",
                    "assists_rank", "points_rank"} \subseteq DOMAIN d
                /\ ~(Case1(r) # r /\ Case2(Case1(r)) # Case1(r))

\* a run in which CASE 1 raised one record's counter and CASE 2 raised the
\* other record's points, both records ranked by some leaderboard
C24_Witness ==
    /\ Validated
    /\ \E k \in DOMAIN players_dict :
          /\ Case1(raw_dict[k]) # raw_dict[k]
          /\ players_dict[k].points_rank # NoRank
          /\ ChangedFields(k) \in {{"goals"}, {"assists"}}
    /\ \E k \in DOMAIN players_dict :
          /\ Case2(raw_dict[k]) # raw_dict[k]
          /\ players_dict[k].points_rank = NoRank
          /\ ChangedFields(k) = {"points"}

(***************************************************************************)
(* Further claims on match_stream_to_game (SpecMatch)                      *)
(***************************************************************************)

\* C25: match_stream_to_game returns either nothing or the url of one of
\* the candidates of its input list; with an empty list it returns
\* nothing; it never returns a url that belongs to no input candidate.
C25_ReturnsInputUrl ==
    Called =>
        /\ \/ match_stream_to_game(match_streams, match_game, TeamById) = NoUrl
           \/ \E i \in Indices :
                 match_stream_to_game(match_streams, match_game, TeamById)
                     = match_streams[i].url
        /\ match_result.url = NoUrl
              \/ \E i \in Indices : match_result.url = match_streams[i].url
        /\ match_streams = << >> => match_result = NoMatch

\* a call that returned the second of two candidates
C25_Witness ==
    /\ Called
    /\ Len(match_streams) = 2
    /\ match_result.url = match_streams[2].url
    /\ match_result.url # match_streams[1].url

\* C26 as stated: match_stream_to_game never returns a candidate that
\* carries a scheduled start more than 2 hours from the fixture's start,
\* in any tier.
C26_NoOffScheduleCandidate ==
    Called =>
        \A i \in Indices :
            (match_result.url = match_streams[i].url
                /\ match_streams[i].scheduled_time # NoTime)
            => TimeEligible(match_streams[i])

(***************************************************************************)
(* Claims on the table under several passes (SpecOverlap)                  *)
(***************************************************************************)

\* C27 as stated: no stream url is ever stored as the live_url of two
\* distinct fixtures, neither within one pass nor across passes that
\* follow one another.
C27_NoSharedUrl ==
    \A i, j \in DOMAIN live_url :
        (i # j /\ live_url[i] # NoUrl) => live_url[i] # live_url[j]

\* C28 as stated: when two passes overlap, a fixture's live_url is still
\* written at most once: a url one pass wrote is never overwritten by the
\* other.
C28_WrittenOnce ==
    [][\A id \in DOMAIN live_url :
          live_url[id] # NoUrl => live_url'[id] = live_url[id]]_vars

(***************************************************************************)
(* Claims on the highlight scraper (SpecHighlights)                        *)
(***************************************************************************)

\* The game is played on the parsed date by the two parsed teams, in
\* either order.
PlayedBy(game, parsed_info) ==
    /\ Slice(HighlightGames[game].match_at, 0, 10) = parsed_info.date
    /\ parsed_info.team_a \in DOMAIN TeamIdByName
    /\ parsed_info.team_b \in DOMAIN TeamIdByName
    /\ LET home == HighlightGames[game].home_alih_team_id
           away == HighlightGames[game].away_alih_team_id
           a == TeamIdByName[parsed_info.team_a]
           b == TeamIdByName[parsed_info.team_b]
       IN  (home = a /\ away = b) \/ (home = b /\ away = a)

\* C29: over any sequence of runs and any order of the videos in a run,
\* once a row's highlight_url is non-empty the scraper never changes the
\* row's highlight_url or highlight_title again; and a highlight is
\* written only to a game on the parsed date whose home/away pair is the
\* two parsed teams in either order.
C29_HighlightWrittenOnce ==
    /\ [][\A id \in DOMAIN highlights :
             /\ highlights[id].highlight_url # NoUrl =>
                    highlights'[id] = highlights[id]
             /\ highlights'[id] # highlights[id] =>
                    /\ hl_last'.game = id
                    /\ hl_last'.how = "updated"
                    /\ PlayedBy(id, hl_last'.video.parsed)
                    /\ highlights'[id].highlight_url = Url(hl_last'.video.id)]_vars
    /\ [](\A id \in DOMAIN highlights :
             (highlights[id].highlight_url = NoUrl)
                 <=> (highlights[id].highlight_title = << >>))

\* a video of the other upload, for a game that has its highlight, teams
\* in the reverse order, was passed over
C29_Witness ==
    /\ hl_last.how = "already"
    /\ hl_last.game = 1
    /\ hl_last.video.parsed.team_a = "HL Anyang"
    /\ highlights[1].highlight_url # NoUrl
    /\ highlights[1].highlight_url # Url(hl_last.video.id)
    /\ highlights[2].highlight_url # NoUrl

(***************************************************************************)
(* Claim on the weekly notification (SpecWeekly)                           *)
(***************************************************************************)

\* C30 as stated: in the weekly notification, whatever captures and
\* uploads succeed or fail, an image block labelled "Weekly Stats" shows
\* the weekly-stats capture and an image block labelled "Standings" shows
\* the standings capture.
C30_LabelsMatchImages ==
    \A i \in 1..Len(blocks) :
        blocks[i].type = "image" =>
            /\ blocks[i].alt_text = "Weekly Stats" =>
                   blocks[i].image_url = PublicUrl(StatsImage)
            /\ blocks[i].alt_text = "Standings" =>
                   blocks[i].image_url = PublicUrl(StandingsImage)

====
